---- MODULE Spec2Model ----
(***************************************************************************)
(* LoopChamber: the memory scoring engine and the memory collections.      *)
(*                                                                         *)
(*   src/loopchamber_app.py  MemoryScorer (three-factor tempo, history     *)
(*                           comparison, mixed-emotion override),          *)
(*                           MemoryStore and the score-then-insert helper  *)
(*   src/memory_scorer.py    MemoryScorer (simplified variant)             *)
(*   src/memory_store.py     the application driving scorer and store      *)
(*   src/main.py             the Memory Lab prototype                      *)
(*                                                                         *)
(* Text is a sequence of one-character strings, so that lower-casing,      *)
(* whitespace splitting and substring containment are computed as Python   *)
(* computes them.  Scores are integers: factors and results in hundredths, *)
(* weighted sums in thousandths (0.34 is 34, 0.4*0.1 + 0.6*0.5 is 340).    *)
(***************************************************************************)
EXTENDS Integers, Sequences, FiniteSets, TLC

VARIABLES
    call,           \* arguments of the latest score_memory call
    scores,         \* the dict returned by the latest score_memory call
    scored_by,      \* which MemoryScorer class produced `scores`
    first_scores,   \* per class: the dict its first call for `call` returned
    calls_made,     \* per class: the number of score_memory calls for `call`
    scorer_attrs,   \* attributes set on the memory_scorer.py instance after __init__
    scorer_tables,  \* self.emotional_lexicons and self.contradiction_signals
    session_state,  \* st.session_state of memory_store.py: api_key and messages
    memories,       \* loopchamber_app.py: MemoryStore.memories
    now,            \* the wall clock, in clock steps
    add_call,       \* arguments and return value of the latest MemoryStore.add_memory
    view_held,      \* "no", "held": a caller holds the list get_all_memories
                    \* returned, "changed": and has changed it
    lab_memories,   \* main.py: the module-level list `memories`
    memory_file,    \* main.py: the list saved in memory/memories.json
    connections,    \* memory_store.py: the connections of the MemoryStore
    graph_op,       \* the latest operation of memory_store.py and its outcome
    pairs,          \* the list find_most_dissonant_pairs returned last
    pair_eval,      \* the latest score_dissonance_between_memories call
    pair_weights    \* the weighting the pairwise evaluator was built with

vars == << call, scores, scored_by, first_scores, calls_made, scorer_attrs, scorer_tables,
           session_state,
           memories, now, add_call, view_held, lab_memories, memory_file,
           connections, graph_op, pairs, pair_eval, pair_weights >>

\* the state of memory_store.py's connection graph and pairwise evaluator
graph_vars == << connections, graph_op, pairs, pair_eval, pair_weights >>

(***************************************************************************)
(* Bounds of the model.                                                    *)
(***************************************************************************)
MidWords == 57      \* number of words of the mid-length sample text
MaxCalls == 2       \* score_memory calls per class on the same arguments
MaxHist == 6        \* longest history passed to score_memory
LongWords == 131    \* number of words of the long sample text
MaxMemories == 3    \* memories in a MemoryStore
MaxTime == 2        \* clock steps
StepsPerSecond == 2 \* clock steps in one second of time.time()
MaxLab == 2         \* memories in the Memory Lab list
MaxRepeats == 2     \* repetitions of a signal phrase put before a content
MaxQuestions == 5   \* question marks put after a content

(***************************************************************************)
(* Python text primitives.                                                 *)
(***************************************************************************)
UpperToLower ==
    "A" :> "a" @@ "B" :> "b" @@ "C" :> "c" @@ "D" :> "d" @@ "E" :> "e" @@
    "F" :> "f" @@ "G" :> "g" @@ "H" :> "h" @@ "I" :> "i" @@ "J" :> "j" @@
    "K" :> "k" @@ "L" :> "l" @@ "M" :> "m" @@ "N" :> "n" @@ "O" :> "o" @@
    "P" :> "p" @@ "Q" :> "q" @@ "R" :> "r" @@ "S" :> "s" @@ "T" :> "t" @@
    "U" :> "u" @@ "V" :> "v" @@ "W" :> "w" @@ "X" :> "x" @@ "Y" :> "y" @@
    "Z" :> "z"

Whitespace == {" ", "\t", "\n"}

\* str.lower()
lower(s) ==
    [i \in 1..Len(s) |-> IF s[i] \in DOMAIN UpperToLower THEN UpperToLower[s[i]] ELSE s[i]]

\* str.split(): the maximal runs of non-whitespace characters, in order
split(s) ==
    LET starts == {i \in 1..Len(s) :
                      s[i] \notin Whitespace /\ (i = 1 \/ s[i - 1] \in Whitespace)}
        ends == {i \in 1..Len(s) :
                    s[i] \notin Whitespace /\ (i = Len(s) \/ s[i + 1] \in Whitespace)}
        start_of(k) == CHOOSE i \in starts : Cardinality({j \in starts : j < i}) = k - 1
        end_of(k) == CHOOSE i \in ends : Cardinality({j \in ends : j < i}) = k - 1
    IN  [k \in 1..Cardinality(starts) |-> SubSeq(s, start_of(k), end_of(k))]

\* str_in matching whole whitespace-delimited words only
str_in_word(sub, s) ==
    \E i \in 1..(Len(s) - Len(sub) + 1) :
        /\ \A j \in 1..Len(sub) : s[i + j - 1] = sub[j]
        /\ (i = 1 \/ s[i - 1] \in Whitespace)
        /\ (i + Len(sub) - 1 = Len(s) \/ s[i + Len(sub)] \in Whitespace)

\* `sub in s` for strings: sub occurs in s as a contiguous substring
str_in(sub, s) ==
    \E i \in 1..(Len(s) - Len(sub) + 1) :
        \A j \in 1..Len(sub) : s[i + j - 1] = sub[j]

\* s.count(c) for a one-character c
str_count(s, c) == Cardinality({i \in 1..Len(s) : s[i] = c})

\* set(words)
to_set(words) == {words[i] : i \in 1..Len(words)}

\* dict.get(key, default)
dict_get(d, key, default) == IF key \in DOMAIN d THEN d[key] ELSE default

min(a, b) == IF a <= b THEN a ELSE b

max(a, b) == IF a >= b THEN a ELSE b

\* s * n
repeat(s, n) == [i \in 1..(n * Len(s)) |-> s[((i - 1) % Len(s)) + 1]]

(***************************************************************************)
(* MemoryScorer.__init__: the lexicons and the contradiction signals,      *)
(* identical in loopchamber_app.py and memory_scorer.py.  The dict keeps   *)
(* its insertion order, which decides ties between categories.             *)
(***************************************************************************)
emotional_lexicons ==
    << [category |-> "positive", words |-> <<
          <<"h","a","p","p","y">>, <<"j","o","y">>, <<"g","l","a","d">>, <<"d","e","l","i","g","h","t">>, <<"p","l","e","a","s","e","d">>, <<"c","h","e","e","r","f","u","l">>,
          <<"c","o","n","t","e","n","t">>, <<"s","a","t","i","s","f","i","e","d">>, <<"e","x","c","i","t","e","d">>, <<"t","h","r","i","l","l","e","d">>, <<"o","p","t","i","m","i","s","t","i","c">>,
          <<"e","n","t","h","u","s","i","a","s","t","i","c">>, <<"h","o","p","e","f","u","l">>, <<"c","o","n","f","i","d","e","n","t">>, <<"p","r","o","u","d">>, <<"l","o","v","e">>,
          <<"a","d","o","r","e">>, <<"e","n","j","o","y">>, <<"l","i","k","e">> >>],
       [category |-> "negative", words |-> <<
          <<"s","a","d">>, <<"u","n","h","a","p","p","y">>, <<"d","e","p","r","e","s","s","e","d">>, <<"g","l","o","o","m","y">>, <<"m","i","s","e","r","a","b","l","e">>,
          <<"d","i","s","a","p","p","o","i","n","t","e","d">>, <<"f","r","u","s","t","r","a","t","e","d">>, <<"a","n","n","o","y","e","d">>, <<"a","n","g","r","y">>, <<"f","u","r","i","o","u","s">>,
          <<"o","u","t","r","a","g","e","d">>, <<"i","r","r","i","t","a","t","e","d">>, <<"u","p","s","e","t">>, <<"w","o","r","r","i","e","d">>, <<"a","n","x","i","o","u","s">>,
          <<"a","f","r","a","i","d">>, <<"f","e","a","r","f","u","l">>, <<"s","c","a","r","e","d">> >>],
       [category |-> "neutral", words |-> <<
          <<"t","h","i","n","k">>, <<"c","o","n","s","i","d","e","r">>, <<"b","e","l","i","e","v","e">>, <<"u","n","d","e","r","s","t","a","n","d">>, <<"k","n","o","w">>,
          <<"r","e","c","o","g","n","i","z","e">>, <<"o","b","s","e","r","v","e">>, <<"n","o","t","i","c","e">>, <<"p","e","r","c","e","i","v","e">>, <<"f","e","e","l">>,
          <<"s","e","n","s","e">>, <<"e","x","p","e","r","i","e","n","c","e">> >>],
       [category |-> "complex", words |-> <<
          <<"b","i","t","t","e","r","s","w","e","e","t">>, <<"a","m","b","i","v","a","l","e","n","t">>, <<"c","o","n","f","l","i","c","t","e","d">>, <<"t","o","r","n">>,
          <<"m","i","x","e","d"," ","f","e","e","l","i","n","g","s">>, <<"n","o","s","t","a","l","g","i","c">>, <<"m","e","l","a","n","c","h","o","l","y">>, <<"s","e","n","t","i","m","e","n","t","a","l">>,
          <<"w","i","s","t","f","u","l">>, <<"l","o","n","g","i","n","g">> >>] >>

contradiction_signals ==
    << <<"b","u","t">>, <<"h","o","w","e","v","e","r">>, <<"n","e","v","e","r","t","h","e","l","e","s","s">>, <<"c","o","n","v","e","r","s","e","l","y">>,
       <<"o","n"," ","t","h","e"," ","o","t","h","e","r"," ","h","a","n","d">>, <<"i","n"," ","c","o","n","t","r","a","s","t">>, <<"c","o","n","t","r","a","r","y">>, <<"o","p","p","o","s","i","t","e">>,
       <<"u","n","l","i","k","e">>, <<"i","n","s","t","e","a","d">>, <<"w","h","i","l","e">>, <<"w","h","e","r","e","a","s">>, <<"y","e","t">>, <<"a","l","t","h","o","u","g","h">>,
       <<"d","e","s","p","i","t","e">>, <<"i","n"," ","s","p","i","t","e">> >>

\* the keys of the dict
Categories == {emotional_lexicons[k].category : k \in 1..Len(emotional_lexicons)}

lexicon(category) ==
    emotional_lexicons[CHOOSE k \in 1..Len(emotional_lexicons) :
                           emotional_lexicons[k].category = category].words

\* type_weights (pitch), in hundredths
type_weights ==
    <<"i","n","s","i","g","h","t">> :> 80 @@ <<"q","u","e","s","t","i","o","n">> :> 70 @@ <<"o","b","s","e","r","v","a","t","i","o","n">> :> 60 @@
    <<"e","v","e","n","t">> :> 50 @@ <<"r","e","f","l","e","c","t","i","o","n">> :> 70

\* tempo_type_weights, in hundredths
tempo_type_weights ==
    <<"i","n","s","i","g","h","t">> :> 70 @@ <<"q","u","e","s","t","i","o","n">> :> 80 @@ <<"o","b","s","e","r","v","a","t","i","o","n">> :> 50 @@
    <<"e","v","e","n","t">> :> 40 @@ <<"r","e","f","l","e","c","t","i","o","n">> :> 60

DefaultTypeWeight == 50

(***************************************************************************)
(* round(x, 2).  x is in thousandths, the result in hundredths.  An x that *)
(* is not an exact half rounds to the nearest hundredth.  An exact half    *)
(* has no exact double: Python rounds the double the float expression      *)
(* produced, which lies just above or just below the half.                 *)
(* TempoRoundsDown lists the (question_factor, emotion_factor,             *)
(* tempo_type_factor) triples whose three-factor tempo lies below its      *)
(* half; every other half lies above.  Pitch, dissonance and the           *)
(* two-factor tempo never produce a half.                                  *)
(***************************************************************************)
TempoRoundsDown ==
    {
    <<0,5,70>>, <<0,15,60>>, <<0,15,70>>, <<0,25,70>>, <<0,35,60>>,
    <<0,45,70>>, <<0,55,50>>, <<0,55,70>>, <<0,65,60>>, <<0,65,70>>,
    <<0,75,50>>, <<0,75,60>>, <<0,75,70>>, <<20,5,70>>, <<20,15,60>>,
    <<20,25,70>>, <<20,35,50>>, <<20,35,70>>, <<20,45,60>>, <<20,45,70>>,
    <<20,55,60>>, <<20,65,60>>, <<20,65,70>>, <<20,75,50>>, <<20,75,60>>,
    <<20,75,70>>, <<20,75,80>>, <<40,5,70>>, <<40,15,50>>, <<40,15,70>>,
    <<40,25,60>>, <<40,25,70>>, <<40,35,60>>, <<40,45,60>>, <<40,45,70>>,
    <<40,55,70>>, <<40,65,60>>, <<40,65,70>>, <<40,75,50>>, <<40,75,60>>,
    <<40,75,70>>, <<60,5,60>>, <<60,5,70>>, <<60,25,60>>, <<60,25,70>>,
    <<60,35,70>>, <<60,45,70>>, <<60,55,60>>, <<60,55,70>>, <<60,65,50>>,
    <<60,65,60>>, <<60,75,50>>, <<80,5,60>>, <<80,5,70>>, <<80,15,50>>,
    <<80,15,60>>, <<80,15,70>>, <<80,15,80>>, <<80,25,60>>, <<80,25,70>>,
    <<80,35,50>>, <<80,35,60>>, <<80,35,70>>, <<80,45,50>>, <<80,45,60>>,
    <<80,55,50>>, <<80,65,40>>, <<80,65,70>>, <<80,75,40>>, <<80,75,60>>,
    <<80,75,70>> }

round2(x, half_rounds_down) ==
    IF x % 10 = 5
    THEN IF half_rounds_down THEN x \div 10 ELSE x \div 10 + 1
    ELSE (x + 5) \div 10

(***************************************************************************)
(* The parts of score_memory that read only the lower-cased text.          *)
(***************************************************************************)
\* signals_found counting every occurrence of every signal
signals_found_occurrences(text) ==
    Cardinality({<<k, i>> \in (1..Len(contradiction_signals)) \X (1..Len(text)) :
                    /\ i + Len(contradiction_signals[k]) - 1 <= Len(text)
                    /\ SubSeq(text, i, i + Len(contradiction_signals[k]) - 1)
                         = contradiction_signals[k]})

\* for signal in self.contradiction_signals: if signal in text: ... += 0.15
signals_found(text) ==
    Cardinality({k \in 1..Len(contradiction_signals) :
                    str_in(contradiction_signals[k], text)})

\* for word in words: if word in text: emotion_counts[category] += 1
words_found(category, text) ==
    LET words == lexicon(category)
    IN  Cardinality({k \in 1..Len(words) : str_in(words[k], text)})

analyse(text) ==
    [ words         |-> to_set(split(text)),
      word_count    |-> Len(split(text)),
      signals       |-> signals_found(text),
      questions     |-> str_count(text, "?"),
      emotion_counts |-> [c \in Categories |-> words_found(c, text)] ]

(***************************************************************************)
(* Sample inputs.                                                          *)
(***************************************************************************)
txt_empty == <<>>

txt_scenario == <<"I"," ","l","o","v","e"," ","t","h","i","s"," ","b","u","t"," ","I"," ","a","l","s","o"," ","f","e","e","l"," ","a","n","x","i","o","u","s">>

txt_happy == <<"H","A","P","P","Y">>

\* one positive and one neutral word
txt_think_happy == <<"i"," ","t","h","i","n","k"," ","i"," ","a","m"," ","h","a","p","p","y">>

\* one negative and one complex word
txt_sad_torn == <<"s","a","d"," ","a","n","d"," ","t","o","r","n">>

\* four positive words, one negative word
txt_4pos_1neg == <<"h","a","p","p","y"," ","g","l","a","d"," ","p","r","o","u","d"," ","l","o","v","e"," ","s","a","d">>

\* four positive words, one negative word, one complex word
txt_4pos_1neg_torn == <<"h","a","p","p","y"," ","g","l","a","d"," ","p","r","o","u","d"," ","l","o","v","e"," ","s","a","d"," ","t","o","r","n">>

\* four negative words, one positive word
txt_4neg_1pos == <<"s","a","d"," ","a","n","g","r","y"," ","u","p","s","e","t"," ","w","o","r","r","i","e","d"," ","h","a","p","p","y">>

\* six contradiction signals and a question mark
txt_signals == <<"b","u","t"," ","h","o","w","e","v","e","r"," ","y","e","t"," ","a","l","t","h","o","u","g","h"," ","i","n","s","t","e","a","d"," ","w","h","i","l","e","?">>

txt_questions == <<"w","h","y","?"," ","h","o","w","?"," ","w","h","a","t","?"," ","w","h","o","?"," ","w","h","e","n","?">>

\* "but" and "love" only inside longer words
txt_butter_glove == <<"t","h","e"," ","b","u","t","t","e","r"," ","g","l","o","v","e">>

txt_know == <<"I"," ","k","n","o","w","\t","i","t","\n","w","e","l","l">>

txt_nostalgic == <<"n","o","s","t","a","l","g","i","c">>

txt_jazz_love == <<"I"," ","l","o","v","e"," ","j","a","z","z">>

txt_jazz_however == <<"J","a","z","z"," ","i","s"," ","s","a","d"," ","h","o","w","e","v","e","r">>

txt_jazz_jazz == <<"j","a","z","z"," ","j","a","z","z">>

txt_mid == repeat(<<"s","o"," ">>, MidWords)

txt_long == repeat(<<"a"," ">>, LongWords)

Contents ==
    { txt_empty, txt_scenario, txt_happy, txt_think_happy, txt_sad_torn,
      txt_4pos_1neg, txt_4pos_1neg_torn, txt_4neg_1pos, txt_signals,
      txt_questions, txt_butter_glove, txt_know, txt_nostalgic, txt_mid,
      txt_long }

\* the five types of the selectbox are recognized in any letter case;
\* "dream" is not a recognized type
Types == { <<"i","n","s","i","g","h","t">>, <<"e","v","e","n","t">>, <<"Q","u","e","s","t","i","o","n">>, <<"d","r","e","a","m">> }

EmotionLabels == {"positive", "negative", "neutral", "complex"}

\* a stored memory, as MemoryStore.add_memory builds it
hist_memory ==
    [ id |-> <<"mem", 0, 1000>>,
      content |-> <<"I"," ","f","e","e","l"," ","s","a","d"," ","B","U","T"," ","h","a","p","p","y">>,
      type |-> <<"i","n","s","i","g","h","t">>,
      created_at |-> 0,
      musical_attributes |->
          [pitch |-> 52, dissonance |-> 15, tempo |-> 31, emotion |-> "complex"] ]

\* a record of main.py's list: it has no 'content' key
hist_lab_record ==
    [ text |-> <<"I"," ","f","e","e","l"," ","s","a","d"," ","B","U","T"," ","h","a","p","p","y">>,
      pitch |-> 30, dissonance |-> 100, tempo |-> 20, emotion |-> "tense" ]

HistEntries == {hist_memory, hist_lab_record}

RECURSIVE SeqsUpTo(_, _)
SeqsUpTo(S, n) ==
    IF n = 0 THEN {<<>>}
    ELSE LET shorter == SeqsUpTo(S, n - 1)
         IN  shorter \cup {Append(h, e) : h \in {x \in shorter : Len(x) = n - 1}, e \in S}

Histories == SeqsUpTo(HistEntries, MaxHist)

\* the optional argument existing_memories: None, or a list
none_arg == [is_none |-> TRUE, list |-> <<>>]

list_arg(l) == [is_none |-> FALSE, list |-> l]

\* `if existing_memories:` is false for None and for the empty list
truthy(existing_memories) ==
    ~existing_memories.is_none /\ Len(existing_memories.list) > 0

\* contents the forms submit to the stores (`if submit and memory_content`
\* keeps the empty string out)
FormContents == {txt_scenario, <<"H","a","p","p","y"," ","B","U","T"," ","s","a","d">>}

FormTypes == { <<"i","n","s","i","g","h","t">>, <<"e","v","e","n","t">> }

\* contents a caller lengthens: a signal inside a longer word, a signal as a
\* word of its own, no signal
GrowBases == {txt_butter_glove, txt_scenario, txt_know}

\* the content with i repetitions of "but" before it and j question marks
\* after it
grown(content, i, j) == repeat(<<"b","u","t"," ">>, i) \o content \o repeat(<<"?">>, j)

GrownContents ==
    {grown(b, i, j) : b \in GrowBases, i \in 0..MaxRepeats, j \in 0..MaxQuestions}

(***************************************************************************)
(* analyse, evaluated once for each lower-cased text of the model.         *)
(***************************************************************************)
KnownTexts ==
    {lower(c) : c \in Contents \cup FormContents \cup {hist_memory.content}
                     \cup {txt_jazz_love, txt_jazz_however, txt_jazz_jazz}
                     \cup GrownContents}

Analysed == {<<t, analyse(t)>> : t \in KnownTexts}

analysis(text) ==
    CHOOSE r \in { IF t \in KnownTexts
                   THEN (CHOOSE p \in Analysed : p[1] = t)[2]
                   ELSE analyse(t) : t \in {text} } : TRUE

(***************************************************************************)
(* score_memory, section by section.                                       *)
(***************************************************************************)
\* pitch_app without the lower clamp max(0.1, ...) of the length factor
pitch_app_no_floor(text, memory_type) ==
    LET word_count == analysis(text).word_count
        length_factor == min(100, word_count)
        type_factor == dict_get(type_weights, lower(memory_type), DefaultTypeWeight)
    IN  (length_factor * 4) + (type_factor * 6)

\* loopchamber_app.py PITCH: word_count / 100 clamped to [0.1, 1.0], weighted
\* with the type factor; in thousandths
pitch_app(text, memory_type) ==
    LET word_count == analysis(text).word_count
        length_factor == min(100, max(10, word_count))
        type_factor == dict_get(type_weights, lower(memory_type), DefaultTypeWeight)
    IN  (length_factor * 4) + (type_factor * 6)

\* loopchamber_app.py: internal contradiction score, in hundredths
contradiction_score_app(text) == min(80, 15 * analysis(text).signals)

\* last_five keeping every entry
last_five_all(l) == l

\* existing_memories[-5:]
last_five(l) == SubSeq(l, max(1, Len(l) - 4), Len(l))

\* comparison_score_app adding 0.2 for shared words whether or not the text
\* holds a signal
comparison_score_app_any_shared(text, existing_memories) ==
    IF truthy(existing_memories)
    THEN LET recent == last_five(existing_memories.list)
             words == analysis(text).words
         IN  20 * Cardinality(
                 {k \in 1..Len(recent) :
                     /\ "content" \in DOMAIN recent[k]
                     /\ words \cap analysis(lower(recent[k].content)).words # {}})
    ELSE 0

\* loopchamber_app.py: 0.2 for each of the last five memories that has a
\* 'content' and shares a word with the text, when the text holds a signal
comparison_score_app(text, existing_memories) ==
    IF truthy(existing_memories)
    THEN LET recent == last_five(existing_memories.list)
             words == analysis(text).words
         IN  20 * Cardinality(
                 {k \in 1..Len(recent) :
                     /\ "content" \in DOMAIN recent[k]
                     /\ words \cap analysis(lower(recent[k].content)).words # {}
                     /\ analysis(text).signals > 0})
    ELSE 0

\* dissonance_app without the upper clamp min(0.9, ...)
dissonance_app_unclamped(text, existing_memories) ==
    max(10, contradiction_score_app(text)
            + comparison_score_app(text, existing_memories))

\* loopchamber_app.py DISSONANCE, in hundredths
dissonance_app(text, existing_memories) ==
    max(10, min(90, contradiction_score_app(text)
                    + comparison_score_app(text, existing_memories)))

\* emotion_factor_app counting the matches of every category of the lexicons
emotion_factor_app_all_four(text) ==
    LET counts == analysis(text).emotion_counts
        emotional_words == counts["positive"] + counts["negative"]
                           + counts["neutral"] + counts["complex"]
    IN  min(80, emotional_words * 5)

\* loopchamber_app.py: for category in ['positive', 'negative', 'complex']
emotion_factor_app(text) ==
    LET counts == analysis(text).emotion_counts
        emotional_words == counts["positive"] + counts["negative"] + counts["complex"]
    IN  min(80, emotional_words * 5)

\* loopchamber_app.py TEMPO, rounded, in hundredths
tempo_app(text, memory_type) ==
    LET question_factor == min(80, analysis(text).questions * 20)
        emotion_factor == emotion_factor_app(text)
        tempo_type_factor ==
            dict_get(tempo_type_weights, lower(memory_type), DefaultTypeWeight)
    IN  round2((question_factor * 3) + (emotion_factor * 3) + (tempo_type_factor * 4),
               <<question_factor, emotion_factor, tempo_type_factor>> \in TempoRoundsDown)

\* pitch_scorer with the two weights exchanged
pitch_scorer_swapped(text, memory_type) ==
    LET word_count == analysis(text).word_count
        length_factor == min(100, max(10, word_count))
        type_factor == dict_get(type_weights, lower(memory_type), DefaultTypeWeight)
    IN  (length_factor * 6) + (type_factor * 4)

\* memory_scorer.py PITCH, in thousandths
pitch_scorer(text, memory_type) ==
    LET word_count == analysis(text).word_count
        length_factor == min(100, max(10, word_count))
        type_factor == dict_get(type_weights, lower(memory_type), DefaultTypeWeight)
    IN  (length_factor * 4) + (type_factor * 6)

\* dissonance_scorer adding 0.1 for each signal
dissonance_scorer_tenth(text) ==
    LET contradiction_score == min(80, 10 * analysis(text).signals)
    IN  max(10, min(90, contradiction_score))

\* memory_scorer.py DISSONANCE ("simplified version"), in hundredths
dissonance_scorer(text) ==
    LET contradiction_score == min(80, 15 * analysis(text).signals)
    IN  max(10, min(90, contradiction_score))

\* tempo_scorer looking the type up as it was passed
tempo_scorer_exact_type(text, memory_type) ==
    LET question_factor == min(80, analysis(text).questions * 20)
        tempo_type_factor ==
            dict_get(tempo_type_weights, memory_type, DefaultTypeWeight)
    IN  round2((question_factor * 4) + (tempo_type_factor * 6), FALSE)

\* memory_scorer.py TEMPO, rounded, in hundredths
tempo_scorer(text, memory_type) ==
    LET question_factor == min(80, analysis(text).questions * 20)
        tempo_type_factor ==
            dict_get(tempo_type_weights, lower(memory_type), DefaultTypeWeight)
    IN  round2((question_factor * 4) + (tempo_type_factor * 6), FALSE)

\* find_dominant with `count >= max_count`: the last highest category wins
RECURSIVE find_dominant_last(_, _, _, _)
find_dominant_last(emotion_counts, k, max_count, dominant_emotion) ==
    IF k > Len(emotional_lexicons)
    THEN dominant_emotion
    ELSE LET emotion == emotional_lexicons[k].category
             count == emotion_counts[emotion]
         IN  IF count >= max_count
             THEN find_dominant_last(emotion_counts, k + 1, count, emotion)
             ELSE find_dominant_last(emotion_counts, k + 1, max_count, dominant_emotion)

\* for emotion, count in emotion_counts.items(): if count > max_count: ...
RECURSIVE find_dominant(_, _, _, _)
find_dominant(emotion_counts, k, max_count, dominant_emotion) ==
    IF k > Len(emotional_lexicons)
    THEN dominant_emotion
    ELSE LET emotion == emotional_lexicons[k].category
             count == emotion_counts[emotion]
         IN  IF count > max_count
             THEN find_dominant(emotion_counts, k + 1, count, emotion)
             ELSE find_dominant(emotion_counts, k + 1, max_count, dominant_emotion)

abs(x) == IF x < 0 THEN -x ELSE x

\* loopchamber_app.py: "Check for mixed emotions (indicating complexity)"
mixed_emotions(emotion_counts) ==
    /\ emotion_counts["positive"] > 0
    /\ emotion_counts["negative"] > 0
    /\ \/ emotion_counts["complex"] > 0
       \/ abs(emotion_counts["positive"] - emotion_counts["negative"]) < 3

\* emotion_app labelling mixed emotions "mixed"
emotion_app_mixed_label(text) ==
    LET emotion_counts == analysis(text).emotion_counts
    IN  IF mixed_emotions(emotion_counts)
        THEN "mixed"
        ELSE find_dominant(emotion_counts, 1, 0, "neutral")

\* EMOTION of loopchamber_app.py
emotion_app(text) ==
    LET emotion_counts == analysis(text).emotion_counts
    IN  IF mixed_emotions(emotion_counts)
        THEN "complex"
        ELSE find_dominant(emotion_counts, 1, 0, "neutral")

\* EMOTION of memory_scorer.py: the dominant emotion, no mixed-emotion check
emotion_scorer(text) ==
    find_dominant(analysis(text).emotion_counts, 1, 0, "neutral")

\* loopchamber_app.py MemoryScorer.score_memory
score_memory_app(memory_content, memory_type, existing_memories) ==
    LET text == lower(memory_content)
    IN  [ pitch      |-> round2(pitch_app(text, memory_type), FALSE),
          dissonance |-> round2(dissonance_app(text, existing_memories) * 10, FALSE),
          tempo      |-> tempo_app(text, memory_type),
          emotion    |-> emotion_app(text) ]

\* score_memory of memory_scorer.py raising dissonance once use_ai is set
score_memory_scorer_ai(content, memory_type, existing_memories) ==
    LET text == lower(content)
        ai == IF <<"use_ai", "True">> \in scorer_attrs THEN 5 ELSE 0
    IN  [ pitch      |-> round2(pitch_scorer(text, memory_type), FALSE),
          dissonance |-> min(90, round2(dissonance_scorer(text) * 10, FALSE) + ai),
          tempo      |-> tempo_scorer(text, memory_type),
          emotion    |-> emotion_scorer(text) ]

\* memory_scorer.py MemoryScorer.score_memory; existing_memories is not read
score_memory_scorer(content, memory_type, existing_memories) ==
    LET text == lower(content)
    IN  [ pitch      |-> round2(pitch_scorer(text, memory_type), FALSE),
          dissonance |-> round2(dissonance_scorer(text) * 10, FALSE),
          tempo      |-> tempo_scorer(text, memory_type),
          emotion    |-> emotion_scorer(text) ]

(***************************************************************************)
(* State after construction.                                               *)
(***************************************************************************)
NoScores == [pitch |-> 0, dissonance |-> 0, tempo |-> 0, emotion |-> "none"]

NoCall == [content |-> <<>>, type |-> <<>>, existing |-> none_arg]

NoAdd ==
    [ seq |-> 0, content |-> <<>>, memory_type |-> <<>>,
      pitch |-> 0, dissonance |-> 0, tempo |-> 0, emotion |-> "none", ret |-> <<>> ]

\* no score_memory call so far; memory_scorer.py's __init__ sets no use_ai
ScorerInit ==
    /\ scores = NoScores
    /\ scored_by = "none"
    /\ first_scores = [app |-> NoScores, scorer |-> NoScores]
    /\ calls_made = [app |-> 0, scorer |-> 0]
    /\ scorer_attrs = {}
    /\ scorer_tables = [ emotional_lexicons |-> emotional_lexicons,
                         contradiction_signals |-> contradiction_signals ]
    /\ session_state =
           [api_key |-> "None", error_message |-> "None", success_message |-> "None"]

\* MemoryStore.__init__, and the clock
StoreInit ==
    /\ memories = <<>>
    /\ now = 0
    /\ add_call = NoAdd
    /\ view_held = "no"

\* main.py: memory/memories.json is created holding [] and loaded
LabInit ==
    /\ memory_file = <<>>
    /\ lab_memories = memory_file

NoGraphOp ==
    [ op |-> "none", seq |-> 0, source |-> <<>>, target |-> <<>>, strength |-> 0,
      limit |-> 0, scorer |-> "none", streak |-> 0, raised |-> "none", ret |-> <<>> ]

\* memory_store.py: a MemoryStore without connections, no operation run, and
\* the pairwise evaluator with its first weighting
GraphInit ==
    /\ connections = <<>>
    /\ graph_op = NoGraphOp
    /\ pairs = <<>>
    /\ pair_eval = [a |-> 0, b |-> 0, score |-> 0]
    /\ pair_weights = [overlap |-> 40, signals |-> 30, emotion |-> 30]

(***************************************************************************)
(* Calls of score_memory on fixed arguments.                               *)
(***************************************************************************)
Calls ==
    [ content : Contents, type : Types,
      existing : {none_arg} \cup {list_arg(h) : h \in Histories} ]

\* ScoreApp cutting the list it was handed down to its last five entries
ScoreApp_truncating ==
    /\ call # NoCall
    /\ scores' = score_memory_app(call.content, call.type, call.existing)
    /\ scored_by' = "loopchamber_app"
    /\ call' = [call EXCEPT !.existing.list = last_five(@)]
    /\ UNCHANGED << first_scores, calls_made, scorer_attrs, session_state,
                    memories, now, add_call, view_held, lab_memories, memory_file,
                    graph_vars, scorer_tables >>

\* scorer.score_memory(content, type, existing) on loopchamber_app.py's class
ScoreApp ==
    /\ call # NoCall
    /\ scores' = score_memory_app(call.content, call.type, call.existing)
    /\ scored_by' = "loopchamber_app"
    /\ UNCHANGED << call, first_scores, calls_made, scorer_attrs, session_state,
                    memories, now, add_call, view_held, lab_memories, memory_file, graph_vars, scorer_tables >>

\* the same call on memory_scorer.py's class
ScoreScorer ==
    /\ call # NoCall
    /\ scores' = score_memory_scorer(call.content, call.type, call.existing)
    /\ scored_by' = "memory_scorer"
    /\ UNCHANGED << call, first_scores, calls_made, scorer_attrs, session_state,
                    memories, now, add_call, view_held, lab_memories, memory_file, graph_vars, scorer_tables >>

InitScore == call \in Calls /\ ScorerInit /\ StoreInit /\ LabInit /\ GraphInit

NextScore == ScoreApp \/ ScoreScorer

SpecScore == InitScore /\ [][NextScore]_vars

(***************************************************************************)
(* Repeated calls of score_memory on the same arguments, with the other    *)
(* class's calls and update_api_key in between.  The first dict each class *)
(* returned is kept for comparison.                                        *)
(***************************************************************************)
RepeatCalls ==
    [ content : {txt_scenario, txt_signals, txt_think_happy, txt_empty},
      type : Types,
      existing : {none_arg} \cup {list_arg(h) : h \in SeqsUpTo(HistEntries, 2)} ]

RepeatApp ==
    /\ calls_made.app < MaxCalls
    /\ scores' = score_memory_app(call.content, call.type, call.existing)
    /\ scored_by' = "loopchamber_app"
    /\ calls_made' = [calls_made EXCEPT !.app = @ + 1]
    /\ first_scores' = IF calls_made.app = 0
                       THEN [first_scores EXCEPT !.app = scores']
                       ELSE first_scores
    /\ UNCHANGED << call, scorer_attrs, session_state, memories, now, add_call,
                    view_held, lab_memories, memory_file, graph_vars, scorer_tables >>

RepeatScorer ==
    /\ calls_made.scorer < MaxCalls
    /\ scores' = score_memory_scorer(call.content, call.type, call.existing)
    /\ scored_by' = "memory_scorer"
    /\ calls_made' = [calls_made EXCEPT !.scorer = @ + 1]
    /\ first_scores' = IF calls_made.scorer = 0
                       THEN [first_scores EXCEPT !.scorer = scores']
                       ELSE first_scores
    /\ UNCHANGED << call, scorer_attrs, session_state, memories, now, add_call,
                    view_held, lab_memories, memory_file, graph_vars, scorer_tables >>

ApiKeys == {"", "sk-test"}

\* memory_store.py update_api_key(key), reached from "Set API Key"
update_api_key(key) ==
    /\ IF key # ""
       THEN /\ session_state' = [session_state EXCEPT
                   !.api_key = key,
                   !.success_message = "API key set. AI-enhanced scoring enabled."]
            /\ scorer_attrs' = {<<"use_ai", "True">>, <<"openai_api_key", key>>}
       ELSE /\ session_state' = [session_state EXCEPT
                   !.api_key = "None",
                   !.success_message = "API key cleared. Using heuristic scoring."]
            /\ scorer_attrs' = {<<"use_ai", "False">>, <<"openai_api_key", "None">>}
    /\ UNCHANGED << call, scores, scored_by, first_scores, calls_made, memories, now, add_call,
                    view_held, lab_memories, memory_file, graph_vars, scorer_tables >>

SetApiKey == \E key \in ApiKeys : update_api_key(key)

InitRepeat == call \in RepeatCalls /\ ScorerInit /\ StoreInit /\ LabInit /\ GraphInit

NextRepeat == RepeatApp \/ RepeatScorer \/ SetApiKey

SpecRepeat == InitRepeat /\ [][NextRepeat]_vars

(***************************************************************************)
(* loopchamber_app.py: MemoryStore and the score-then-insert helper.       *)
(***************************************************************************)
\* random.randint(1000, 9999): the two ends of the range
Suffixes == {1000, 9999}

\* f"mem_{int(time.time())}_{random.randint(1000, 9999)}"
memory_id(suffix) == <<"mem", now \div StepsPerSecond, suffix>>

\* new_memory storing the lower-cased text instead of the content
new_memory_lowered(content, memory_type, pitch, dissonance, tempo, emotion, suffix) ==
    [ id |-> memory_id(suffix),
      content |-> lower(content),
      type |-> memory_type,
      created_at |-> now,
      musical_attributes |->
          [pitch |-> pitch, dissonance |-> dissonance, tempo |-> tempo,
           emotion |-> emotion] ]

\* the dict MemoryStore.add_memory builds
new_memory(content, memory_type, pitch, dissonance, tempo, emotion, suffix) ==
    [ id |-> memory_id(suffix),
      content |-> content,
      type |-> memory_type,
      created_at |-> now,
      musical_attributes |->
          [pitch |-> pitch, dissonance |-> dissonance, tempo |-> tempo,
           emotion |-> emotion] ]

\* self.memories.append(memory)
appended(list, memory) == Append(list, memory)

\* MemoryStore.add_memory: appends the dict and returns its id
store_add_memory(content, memory_type, pitch, dissonance, tempo, emotion, suffix) ==
    LET memory == new_memory(content, memory_type, pitch, dissonance, tempo,
                             emotion, suffix)
    IN  /\ memories' = appended(memories, memory)
        /\ add_call' = [ seq |-> add_call.seq + 1, content |-> content,
                         memory_type |-> memory_type, pitch |-> pitch,
                         dissonance |-> dissonance, tempo |-> tempo,
                         emotion |-> emotion, ret |-> memory["id"] ]

\* MemoryStore.get_all_memories: returns self.memories itself, not a copy
get_all_memories == memories

\* add_memory inserting first and scoring against the collection that
\* already holds the new memory
add_memory_insert_first(content, memory_type, suffix) ==
    LET inserted == new_memory(content, memory_type, 0, 0, 0, "neutral", suffix)
        existing_memories == list_arg(Append(get_all_memories, inserted))
        new_scores == score_memory_app(content, memory_type, existing_memories)
    IN  /\ call' = [content |-> content, type |-> memory_type,
                    existing |-> existing_memories]
        /\ scores' = new_scores
        /\ scored_by' = "loopchamber_app"
        /\ store_add_memory(content, memory_type, new_scores.pitch,
                            new_scores.dissonance, new_scores.tempo,
                            new_scores.emotion, suffix)

\* the helper add_memory(content, memory_type): score against the stored
\* memories, then insert
add_memory(content, memory_type, suffix) ==
    LET existing_memories == list_arg(get_all_memories)
        new_scores == score_memory_app(content, memory_type, existing_memories)
    IN  /\ call' = [content |-> content, type |-> memory_type,
                    existing |-> existing_memories]
        /\ scores' = new_scores
        /\ scored_by' = "loopchamber_app"
        /\ store_add_memory(content, memory_type, new_scores.pitch,
                            new_scores.dissonance, new_scores.tempo,
                            new_scores.emotion, suffix)

\* "memory_form": if submit and memory_content: add_memory(...)
SubmitMemoryForm ==
    \E memory_content \in FormContents, memory_type \in FormTypes, suffix \in Suffixes :
        /\ Len(memories) < MaxMemories
        /\ add_call.seq < MaxMemories
        /\ memory_content # <<>>
        /\ add_memory(memory_content, memory_type, suffix)
        /\ UNCHANGED << first_scores, calls_made, scorer_attrs, session_state, now, view_held,
                        lab_memories, memory_file, graph_vars, scorer_tables >>

\* time passes
Tick ==
    /\ now < MaxTime
    /\ now' = now + 1
    /\ UNCHANGED << call, scores, scored_by, first_scores, calls_made, scorer_attrs,
                    session_state, memories, add_call, view_held, lab_memories,
                    memory_file, graph_vars, scorer_tables >>

Init == call = NoCall /\ ScorerInit /\ StoreInit /\ LabInit /\ GraphInit

Next == SubmitMemoryForm \/ Tick

Spec == Init /\ [][Next]_vars

(***************************************************************************)
(* A caller of the store that keeps the list get_all_memories returned and *)
(* changes it, once.  The list is self.memories, so the change is a change *)
(* of the store's collection.                                              *)
(***************************************************************************)
CallerGetAll ==
    /\ view_held = "no"
    /\ view_held' = "held"
    /\ UNCHANGED << call, scores, scored_by, first_scores, calls_made, scorer_attrs,
                    session_state, memories, now, add_call, lab_memories,
                    memory_file, graph_vars, scorer_tables >>

foreign_record == [text |-> <<"n","o","t"," ","a"," ","m","e","m","o","r","y">>]

\* returned.append(x)
CallerAppend ==
    /\ view_held = "held"
    /\ view_held' = "changed"
    /\ Len(memories) < MaxMemories
    /\ memories' = Append(get_all_memories, foreign_record)
    /\ UNCHANGED << call, scores, scored_by, first_scores, calls_made, scorer_attrs,
                    session_state, now, add_call, lab_memories,
                    memory_file, graph_vars, scorer_tables >>

\* returned.pop()
CallerPop ==
    /\ view_held = "held"
    /\ view_held' = "changed"
    /\ Len(memories) > 0
    /\ memories' = SubSeq(get_all_memories, 1, Len(memories) - 1)
    /\ UNCHANGED << call, scores, scored_by, first_scores, calls_made, scorer_attrs,
                    session_state, now, add_call, lab_memories,
                    memory_file, graph_vars, scorer_tables >>

\* returned[i]['musical_attributes']['pitch'] = 5.0
CallerSetPitch ==
    /\ view_held = "held"
    /\ view_held' = "changed"
    /\ \E i \in 1..Len(memories) :
          /\ "musical_attributes" \in DOMAIN memories[i]
          /\ memories' = [get_all_memories EXCEPT ![i]["musical_attributes"]["pitch"] = 500]
    /\ UNCHANGED << call, scores, scored_by, first_scores, calls_made, scorer_attrs,
                    session_state, now, add_call, lab_memories,
                    memory_file, graph_vars, scorer_tables >>

CallerChange == CallerAppend \/ CallerPop \/ CallerSetPitch

NextCaller == SubmitMemoryForm \/ CallerGetAll \/ CallerChange

SpecCaller == Init /\ [][NextCaller]_vars

(***************************************************************************)
(* main.py: the Memory Lab "Add Memory" handler.                           *)
(***************************************************************************)
\* round(random.uniform(0.3, 1.0), 2): the two ends
LabPitches == {30, 100}

\* round(random.uniform(0.1, 1.0), 2): the two ends
LabDissonances == {10, 100}

\* round(random.uniform(0.2, 1.0), 2): the two ends
LabTempos == {20, 100}

\* random.choice(["positive", "neutral", "negative", "tense"])
LabEmotions == {"positive", "neutral", "negative", "tense"}

LabTexts == {txt_scenario}

LabAddMemory ==
    \E memory_text \in LabTexts, pitch \in LabPitches, dissonance \in LabDissonances,
       tempo \in LabTempos, emotion \in LabEmotions :
        /\ Len(lab_memories) < MaxLab
        /\ lab_memories' = Append(lab_memories,
               [ text |-> memory_text, pitch |-> pitch, dissonance |-> dissonance,
                 tempo |-> tempo, emotion |-> emotion ])
        /\ memory_file' = lab_memories'
        /\ UNCHANGED << call, scores, scored_by, first_scores, calls_made, scorer_attrs,
                        session_state, memories, now, add_call, view_held, graph_vars, scorer_tables >>

NextLab == LabAddMemory

SpecLab == Init /\ [][NextLab]_vars

(***************************************************************************)
(* memory_store.py: the Streamlit application over a MemoryStore with      *)
(* connections.  The MemoryStore class it imports is not among the source  *)
(* files: add_memory and get_all_memories are those of loopchamber_app.py, *)
(* create_connection, get_connections and update_tempo_scores follow the   *)
(* specification's section 4.4.                                            *)
(***************************************************************************)
MaxGraphMemories == 2    \* memories in the store of memory_store.py
MaxGraphOps == 2         \* operations after the memories were added

\* the first option of the connection type selectbox
ConnectionTypes == {"related"}

\* st.slider("Connection strength:", 0.1, 1.0, 0.5, 0.1): both ends
SliderStrengths == {10, 100}

\* strengths a direct caller may pass, in and out of [0.1, 1.0]
CallerStrengths == {5, 50, 110}

\* the first option of the memory type selectbox
NewMemoryTypes == { <<"i","n","s","i","g","h","t">> }

unknown_id == <<"mem", 0, 5555>>

memory_ids(list) == {list[i]["id"] : i \in {k \in 1..Len(list) : "id" \in DOMAIN list[k]}}

\* the errors create_connection's arguments call for
connection_errors(source_id, target_id, strength) ==
    (IF {source_id, target_id} \subseteq memory_ids(memories)
     THEN {} ELSE {"ReferenceError"})
    \cup (IF source_id = target_id THEN {"InvalidEdgeError"} ELSE {})
    \cup (IF strength \in 10..100 THEN {} ELSE {"ValidationError"})

new_connection(source_id, target_id, connection_type, strength) ==
    [ id |-> <<"conn", Len(connections) + 1>>,
      source |-> source_id, target |-> target_id,
      type |-> connection_type, strength |-> strength ]

\* create_connection accepting every pair of ids
create_connection_unchecked(source_id, target_id, connection_type, strength) ==
    LET connection == new_connection(source_id, target_id, connection_type, strength)
    IN  {[raised |-> "none", ret |-> connection.id,
          connections |-> Append(connections, connection)]}

\* MemoryStore.create_connection: the outcomes of a call.  The specification
\* names the error of each violated condition and no order of the checks, so
\* a call violating several conditions may raise any of their errors.
create_connection(source_id, target_id, connection_type, strength) ==
    LET errors == connection_errors(source_id, target_id, strength)
        connection == new_connection(source_id, target_id, connection_type, strength)
    IN  IF errors = {}
        THEN {[raised |-> "none", ret |-> connection.id,
               connections |-> Append(connections, connection)]}
        ELSE {[raised |-> e, ret |-> <<>>, connections |-> connections] : e \in errors}

get_connections == connections

\* "Display messages": each script run shows and clears the two messages
displayed(ss) == [ss EXCEPT !.error_message = "None", !.success_message = "None"]

\* connect_memories setting the success message whatever create_connection did
connect_memories_always_success(ss, source_id, target_id, connection_type, strength) ==
    \E out \in create_connection(source_id, target_id, connection_type, strength) :
        /\ connections' = out.connections
        /\ graph_op' = [NoGraphOp EXCEPT
               !.op = "connect_memories", !.seq = graph_op.seq + 1,
               !.source = source_id, !.target = target_id, !.strength = strength,
               !.raised = out.raised, !.ret = out.ret]
        /\ session_state' =
               [ss EXCEPT !.success_message = "Memories connected successfully!"]

\* connect_memories(source_id, target_id, connection_type, strength)
connect_memories(ss, source_id, target_id, connection_type, strength) ==
    \E out \in create_connection(source_id, target_id, connection_type, strength) :
        /\ connections' = out.connections
        /\ graph_op' = [NoGraphOp EXCEPT
               !.op = "connect_memories", !.seq = graph_op.seq + 1,
               !.source = source_id, !.target = target_id, !.strength = strength,
               !.raised = out.raised, !.ret = out.ret]
        /\ session_state' =
               IF out.raised = "none"
               THEN [ss EXCEPT !.success_message = "Memories connected successfully!"]
               ELSE [ss EXCEPT !.error_message = "Error connecting memories"]

\* Python's None passed where a string is expected
none_value == <<"None">>

\* score_memory raises AttributeError at content.lower() or
\* memory_type.lower() when the argument is None
score_memory_raises(content, memory_type) ==
    content = none_value \/ memory_type = none_value

\* add_new_memory(content, memory_type): score with memory_scorer.py's class
\* against the stored memories, then insert; `except Exception` sets the
\* error message and returns None
add_new_memory(ss, content, memory_type, suffix) ==
    IF score_memory_raises(content, memory_type)
    THEN /\ session_state' = [ss EXCEPT !.error_message = "Error adding memory"]
         /\ graph_op' = [NoGraphOp EXCEPT
                !.op = "add_new_memory", !.seq = graph_op.seq,
                !.raised = "AttributeError", !.ret = <<>>]
         /\ UNCHANGED << call, scores, scored_by, memories, add_call >>
    ELSE LET existing_memories == list_arg(get_all_memories)
             new_scores == score_memory_scorer(content, memory_type, existing_memories)
         IN  /\ call' = [content |-> content, type |-> memory_type,
                         existing |-> existing_memories]
             /\ scores' = new_scores
             /\ scored_by' = "memory_scorer"
             /\ store_add_memory(content, memory_type, new_scores.pitch,
                                 new_scores.dissonance, new_scores.tempo,
                                 new_scores.emotion, suffix)
             /\ graph_op' = [NoGraphOp EXCEPT
                    !.op = "add_new_memory", !.seq = graph_op.seq,
                    !.ret = memory_id(suffix)]
             /\ session_state' =
                    [ss EXCEPT !.success_message = "Memory added successfully!"]

\* "new_memory_form": if submit_button and memory_content: add_new_memory(...)
SubmitNewMemoryForm ==
    \E memory_content \in FormContents, memory_type \in NewMemoryTypes,
       suffix \in Suffixes :
        /\ Len(memories) < MaxGraphMemories
        /\ graph_op.seq = 0
        /\ memory_content # <<>>
        /\ add_new_memory(displayed(session_state), memory_content, memory_type, suffix)
        /\ UNCHANGED << first_scores, calls_made, scorer_attrs, now, view_held,
                        lab_memories, memory_file, connections, pairs, pair_eval,
                        pair_weights, scorer_tables >>

\* "connect_memories_form": source and target are picked among the stored ids
SubmitConnectForm ==
    \E source_id \in memory_ids(memories), target_id \in memory_ids(memories),
       connection_type \in ConnectionTypes, strength \in SliderStrengths :
        /\ Len(memories) >= 2
        /\ graph_op.seq < MaxGraphOps
        /\ source_id # target_id
        /\ connect_memories(displayed(session_state), source_id, target_id,
                            connection_type, strength)
        /\ UNCHANGED << call, scores, scored_by, first_scores, calls_made, scorer_attrs,
                        memories, now, add_call, view_held, lab_memories, memory_file,
                        pairs, pair_eval, pair_weights, scorer_tables >>

\* connect_memories called with any ids and strength
CallConnectMemories ==
    \E source_id \in memory_ids(memories) \cup {unknown_id},
       target_id \in memory_ids(memories) \cup {unknown_id},
       connection_type \in ConnectionTypes, strength \in CallerStrengths :
        /\ graph_op.seq < MaxGraphOps
        /\ connect_memories(session_state, source_id, target_id, connection_type,
                            strength)
        /\ UNCHANGED << call, scores, scored_by, first_scores, calls_made, scorer_attrs,
                        memories, now, add_call, view_held, lab_memories, memory_file,
                        pairs, pair_eval, pair_weights, scorer_tables >>

(***************************************************************************)
(* The pairwise dissonance evaluator memory_store.py calls                 *)
(* (score_dissonance_between_memories, find_most_dissonant_pairs).  The    *)
(* MemoryScorer classes of the source files have neither method: both      *)
(* follow the specification's section 4.3.                                 *)
(***************************************************************************)
MaxPairMemories == 3     \* memories handed to the evaluator

MinDissonance == 30      \* the minimum significance threshold, 0.3

DefaultPairLimit == 5    \* the default of `limit`

\* weightings of overlap, signals and emotional divergence, in hundredths
PairWeightings ==
    { [overlap |-> 40, signals |-> 30, emotion |-> 30],
      [overlap |-> 50, signals |-> 20, emotion |-> 30] }

memory_text(memory) == lower(dict_get(memory, "content", <<>>))

memory_emotion(memory) ==
    dict_get(dict_get(memory, "musical_attributes", [emotion |-> "neutral"]),
             "emotion", "neutral")

\* shared tokens relative to the first text's token count
pair_overlap_of_first(text_a, text_b) ==
    LET first == analysis(text_a).word_count
        shared == analysis(text_a).words \cap analysis(text_b).words
    IN  IF first = 0 THEN 0 ELSE (100 * Cardinality(shared)) \div first

\* (a) token-set intersection size relative to the smaller text's token
\* count, in hundredths
pair_overlap(text_a, text_b) ==
    LET smaller == min(analysis(text_a).word_count, analysis(text_b).word_count)
        shared == analysis(text_a).words \cap analysis(text_b).words
    IN  IF smaller = 0 THEN 0 ELSE (100 * Cardinality(shared)) \div smaller

\* (b) a contradiction signal in either text
pair_signals(text_a, text_b) ==
    IF analysis(text_a).signals > 0 \/ analysis(text_b).signals > 0 THEN 100 ELSE 0

\* (c) divergence of the stored emotion labels: opposing categories above
\* other differing labels, above neutral against anything
emotion_divergence(ea, eb) ==
    IF ea = eb THEN 0
    ELSE IF {ea, eb} = {"positive", "negative"} THEN 100
    ELSE IF "neutral" \in {ea, eb} THEN 25
    ELSE 50

\* the weighted combination, in hundredths
combined_score(weights, text_a, text_b, ea, eb) ==
    ( weights.overlap * pair_overlap(text_a, text_b)
      + weights.signals * pair_signals(text_a, text_b)
      + weights.emotion * emotion_divergence(ea, eb) )
    \div 100

\* MemoryScorer.score_dissonance_between_memories(a, b), in hundredths
pairwise_score(a, b) ==
    combined_score(pair_weights, memory_text(a), memory_text(b),
                   memory_emotion(a), memory_emotion(b))

\* the pairs of positions i < j whose score exceeds the threshold
significant_pairs(list) ==
    { <<i, j>> \in (1..Len(list)) \X (1..Len(list)) :
        i < j /\ pairwise_score(list[i], list[j]) > MinDissonance }

\* pair p is listed before pair q: the higher score, the earlier positions
\* among equals
listed_before(list, p, q) ==
    LET sp == pairwise_score(list[p[1]], list[p[2]])
        sq == pairwise_score(list[q[1]], list[q[2]])
    IN  \/ sp > sq
        \/ sp = sq /\ (p[1] < q[1] \/ (p[1] = q[1] /\ p[2] < q[2]))

\* the k-th pair of the ranking
ranked_pair(list, candidates, k) ==
    CHOOSE p \in candidates :
        Cardinality({q \in candidates : listed_before(list, q, p)}) = k - 1

\* ranked without the truncation to `limit`
ranked_untruncated(list, candidates, limit) ==
    [ k \in 1..Cardinality(candidates) |->
        LET p == ranked_pair(list, candidates, k)
        IN  <<list[p[1]], list[p[2]], pairwise_score(list[p[1]], list[p[2]])>> ]

\* the significant pairs, highest score first, at most `limit` of them
ranked(list, candidates, limit) ==
    [ k \in 1..min(max(limit, 0), Cardinality(candidates)) |->
        LET p == ranked_pair(list, candidates, k)
        IN  <<list[p[1]], list[p[2]], pairwise_score(list[p[1]], list[p[2]])>> ]

\* MemoryScorer.find_most_dissonant_pairs(memories, limit)
find_most_dissonant_pairs(list, limit) == ranked(list, significant_pairs(list), limit)

\* a memory as add_new_memory stores it, with the k-th id
stored_memory(content, memory_type, k) ==
    LET s == score_memory_scorer(content, memory_type, none_arg)
    IN  [ id |-> <<"mem", 0, 1000 + k>>, content |-> content, type |-> memory_type,
          created_at |-> 0,
          musical_attributes |-> [pitch |-> s.pitch, dissonance |-> s.dissonance,
                                  tempo |-> s.tempo, emotion |-> s.emotion] ]

PairMemories ==
    { stored_memory(txt_jazz_love, <<"i","n","s","i","g","h","t">>, 1),
      stored_memory(txt_jazz_however, <<"e","v","e","n","t">>, 2),
      stored_memory(txt_scenario, <<"i","n","s","i","g","h","t">>, 3),
      stored_memory(txt_jazz_jazz, <<"e","v","e","n","t">>, 4),
      stored_memory(txt_empty, <<"e","v","e","n","t">>, 5),
      stored_memory(txt_nostalgic, <<"i","n","s","i","g","h","t">>, 6) }

\* lists of distinct memories
PairLists ==
    { l \in SeqsUpTo(PairMemories, MaxPairMemories) :
        \A i, j \in 1..Len(l) : i # j => l[i] # l[j] }

PairLimits == {1, 2, DefaultPairLimit}

\* scorer.score_dissonance_between_memories(memories[i], memories[j])
ScorePair ==
    \E i \in 1..Len(memories), j \in 1..Len(memories) :
        /\ pair_eval' = [a |-> i, b |-> j,
                         score |-> pairwise_score(memories[i], memories[j])]
        /\ UNCHANGED << call, scores, scored_by, first_scores, calls_made, scorer_attrs,
                        session_state, memories, now, add_call, view_held,
                        lab_memories, memory_file, connections, graph_op, pairs,
                        pair_weights, scorer_tables >>

\* scorer.find_most_dissonant_pairs(memories, limit)
FindPairs ==
    \E limit \in PairLimits :
        /\ pairs' = find_most_dissonant_pairs(memories, limit)
        /\ graph_op' = [NoGraphOp EXCEPT !.op = "find_most_dissonant_pairs",
                                         !.limit = limit]
        /\ UNCHANGED << call, scores, scored_by, first_scores, calls_made, scorer_attrs,
                        session_state, memories, now, add_call, view_held,
                        lab_memories, memory_file, connections, pair_eval,
                        pair_weights, scorer_tables >>

InitPairs ==
    /\ call = NoCall /\ ScorerInit /\ LabInit
    /\ now = 0 /\ add_call = NoAdd /\ view_held = "no"
    /\ memories \in PairLists
    /\ connections = <<>>
    /\ graph_op = NoGraphOp
    /\ pairs = <<>>
    /\ pair_eval = [a |-> 0, b |-> 0, score |-> 0]
    /\ pair_weights \in PairWeightings

NextPairs == ScorePair \/ FindPairs

SpecPairs == InitPairs /\ [][NextPairs]_vars

\* find_dissonant_pairs(): the pairs, or None and an error message
find_dissonant_pairs(ss) ==
    /\ pairs' = find_most_dissonant_pairs(get_all_memories, DefaultPairLimit)
    /\ session_state' =
           IF pairs' = <<>>
           THEN [ss EXCEPT !.error_message =
                     "No significantly dissonant memory pairs found."]
           ELSE ss

\* "Find Dissonant Pairs": the pairs are listed
FindDissonantPairs ==
    /\ graph_op.seq < MaxGraphOps
    /\ find_dissonant_pairs(displayed(session_state))
    /\ graph_op' = [NoGraphOp EXCEPT !.op = "find_dissonant_pairs",
                                     !.seq = graph_op.seq + 1,
                                     !.limit = DefaultPairLimit]
    /\ UNCHANGED << call, scores, scored_by, first_scores, calls_made, scorer_attrs,
                    memories, now, add_call, view_held, lab_memories, memory_file,
                    connections, pair_eval, pair_weights, scorer_tables >>

\* "Connect These Memories" of a listed pair:
\* connect_memories(mem1['id'], mem2['id'], "contradicts", score)
ConnectThesePair ==
    /\ graph_op.seq < MaxGraphOps
    /\ pairs' = find_most_dissonant_pairs(get_all_memories, DefaultPairLimit)
    /\ \E k \in 1..Len(pairs') :
          connect_memories(displayed(session_state), pairs'[k][1]["id"],
                           pairs'[k][2]["id"], "contradicts", pairs'[k][3])
    /\ UNCHANGED << call, scores, scored_by, first_scores, calls_made,
                    scorer_attrs, memories, now, add_call, view_held,
                    lab_memories, memory_file, pair_eval, pair_weights, scorer_tables >>

ScorerClasses == {"memory_scorer", "loopchamber_app"}

\* scorer.score_memory of the scorer handed to update_tempo_scores
score_with(scorer, content, memory_type, existing_memories) ==
    IF scorer = "loopchamber_app"
    THEN score_memory_app(content, memory_type, existing_memories)
    ELSE score_memory_scorer(content, memory_type, existing_memories)

\* refreshed moving each tempo halfway from its stored value to the new one
RECURSIVE refreshed_drifting(_, _, _)
refreshed_drifting(list, i, scorer) ==
    IF i > Len(list)
    THEN list
    ELSE LET new == score_with(scorer, list[i].content, list[i].type,
                               list_arg(SubSeq(list, 1, i - 1)))
             old == list[i].musical_attributes
         IN  refreshed_drifting(
                 [list EXCEPT ![i].musical_attributes =
                      [new EXCEPT !.tempo = (old.tempo + new.tempo) \div 2]],
                 i + 1, scorer)

\* refreshed scoring each memory against the whole collection
RECURSIVE refreshed_against_all(_, _, _)
refreshed_against_all(list, i, scorer) ==
    IF i > Len(list)
    THEN list
    ELSE refreshed_against_all(
             [list EXCEPT ![i].musical_attributes =
                  score_with(scorer, list[i].content, list[i].type, list_arg(list))],
             i + 1, scorer)

\* MemoryStore.update_tempo_scores(scorer) from position i on: each memory
\* in collection order is re-scored in place against the memories before it
RECURSIVE refreshed(_, _, _)
refreshed(list, i, scorer) ==
    IF i > Len(list)
    THEN list
    ELSE refreshed(
             [list EXCEPT ![i].musical_attributes =
                  score_with(scorer, list[i].content, list[i].type,
                             list_arg(SubSeq(list, 1, i - 1)))],
             i + 1, scorer)

update_tempo_scores(scorer) == memories' = refreshed(memories, 1, scorer)

\* memory_store.update_tempo_scores(memory_scorer), run as a maintenance pass
RefreshTempo ==
    \E scorer \in ScorerClasses :
        /\ graph_op.seq < MaxGraphOps
        /\ Len(memories) > 0
        /\ update_tempo_scores(scorer)
        /\ graph_op' = [NoGraphOp EXCEPT
               !.op = "update_tempo_scores", !.seq = graph_op.seq + 1,
               !.scorer = scorer,
               !.streak = IF graph_op.op = "update_tempo_scores"
                             /\ graph_op.scorer = scorer
                          THEN graph_op.streak + 1 ELSE 1]
        /\ UNCHANGED << call, scores, scored_by, first_scores, calls_made, scorer_attrs,
                        session_state, now, add_call, view_held, lab_memories,
                        memory_file, connections, pairs, pair_eval, pair_weights, scorer_tables >>

NextGraph ==
    \/ SubmitNewMemoryForm
    \/ SubmitConnectForm
    \/ CallConnectMemories
    \/ FindDissonantPairs
    \/ ConnectThesePair
    \/ RefreshTempo

SpecGraph == Init /\ [][NextGraph]_vars

(***************************************************************************)
(* Properties.                                                             *)
(***************************************************************************)
\* the lexicon match counts of the text of the call under study
call_counts == analysis(lower(call.content)).emotion_counts

\* the mixed-signal condition: positive and negative words, and a complex
\* word or counts that differ by less than 3
call_is_mixed ==
    /\ call_counts["positive"] > 0
    /\ call_counts["negative"] > 0
    /\ \/ call_counts["complex"] > 0
       \/ call_counts["positive"] - call_counts["negative"] \in -2..2

\* C1: for every content, type and history, score_memory returns pitch
\* within [0.1, 1.0], dissonance within [0.1, 0.9] and tempo within [0.0, 1.0].
C1_ScoresInRange ==
    scored_by # "none" =>
        /\ scores.pitch \in 10..100
        /\ scores.dissonance \in 10..90
        /\ scores.tempo \in 0..100

\* six signals and two stored memories sharing a word: 0.8 + 0.4 is clamped
C1_Witness ==
    /\ scored_by = "loopchamber_app"
    /\ call.content = txt_signals
    /\ call.existing = list_arg(<<hist_memory, hist_memory>>)
    /\ scores.dissonance = 90

\* C2: for every content, type and history, the emotion score_memory returns
\* is one of positive, negative, neutral, complex.
C2_EmotionIsLabel == scored_by # "none" => scores.emotion \in EmotionLabels

C2_Witness ==
    /\ scored_by = "loopchamber_app"
    /\ call.content = txt_4pos_1neg_torn
    /\ scores.emotion = "complex"

C4_MixedOverride ==
    scored_by # "none" =>
        /\ call_is_mixed => scores.emotion = "complex"
        /\ (call.content = txt_scenario /\ call.type = <<"i","n","s","i","g","h","t">>) =>
               (scores.emotion = "complex" /\ scores.dissonance >= 10)

\* C5 as stated: when the mixed-signal override does not apply, the emotion
\* is the category whose count is strictly higher than every other's, and
\* neutral whenever two or more categories tie for the highest count.
C5_TiesAreNeutral ==
    (scored_by # "none" /\ ~call_is_mixed) =>
        IF \E c \in EmotionLabels :
               \A d \in EmotionLabels \ {c} : call_counts[c] > call_counts[d]
        THEN \A d \in EmotionLabels \ {scores.emotion} :
                 call_counts[scores.emotion] > call_counts[d]
        ELSE scores.emotion = "neutral"

CategoryOrder == <<"positive", "negative", "neutral", "complex">>

\* the first category, in dict order, that reaches the highest count
first_highest(counts) ==
    LET highest == CHOOSE n \in {counts[c] : c \in EmotionLabels} :
                       \A c \in EmotionLabels : counts[c] <= n
        k == CHOOSE i \in 1..4 :
                /\ counts[CategoryOrder[i]] = highest
                /\ \A j \in 1..(i - 1) : counts[CategoryOrder[j]] < highest
    IN  IF highest = 0 THEN "neutral" ELSE CategoryOrder[k]

\* C5 as amended: when the mixed-signal override does not apply, the emotion
\* is the first category, in the order positive, negative, neutral, complex,
\* whose count equals the highest count, and neutral when every count is zero.
C5_FirstHighestWins ==
    (scored_by # "none" /\ ~call_is_mixed) =>
        scores.emotion = first_highest(call_counts)

\* positive and neutral tie with one match each: positive is returned
C5_Witness ==
    /\ scored_by = "loopchamber_app"
    /\ call.content = txt_think_happy
    /\ call_counts["positive"] = 1
    /\ call_counts["neutral"] = 1
    /\ scores.emotion = "positive"

\* C6: scoring the empty string as type event returns pitch = 0.34,
\* dissonance = 0.1, emotion = neutral and a tempo equal to the event type
\* weight's share alone: 0.4 * 0.4 in loopchamber_app.py, 0.6 * 0.4 in
\* memory_scorer.py.
C6_EmptyEvent ==
    (scored_by # "none" /\ call.content = <<>> /\ call.type = <<"e","v","e","n","t">>) =>
        /\ scores.pitch = 34
        /\ scores.dissonance = 10
        /\ scores.emotion = "neutral"
        /\ scored_by = "loopchamber_app" => scores.tempo = 16
        /\ scored_by = "memory_scorer" => scores.tempo = 24

C6_Witness ==
    /\ scored_by = "memory_scorer"
    /\ call.content = <<>>
    /\ call.type = <<"e","v","e","n","t">>
    /\ scores.tempo = 24

\* C7: after any sequence of add_memory calls on one store, no two stored
\* memories have the same id, also when several inserts happen within the
\* same clock tick, whatever random suffixes are drawn.
C7_UniqueIds ==
    \A i, j \in 1..Len(memories) : i # j => memories[i]["id"] # memories[j]["id"]

\* C8: in every reachable state of a memory collection, every stored memory
\* has pitch within [0.1, 1.0], dissonance within [0.1, 0.9], tempo within
\* [0.0, 1.0] and an emotion among positive, negative, neutral, complex.
C8_StoredAttributesInRange ==
    /\ \A i \in 1..Len(memories) :
          LET attrs == memories[i]["musical_attributes"]
          IN  /\ attrs.pitch \in 10..100
              /\ attrs.dissonance \in 10..90
              /\ attrs.tempo \in 0..100
              /\ attrs.emotion \in EmotionLabels
    /\ \A i \in 1..Len(lab_memories) :
          /\ lab_memories[i].pitch \in 10..100
          /\ lab_memories[i].dissonance \in 10..90
          /\ lab_memories[i].tempo \in 0..100
          /\ lab_memories[i].emotion \in EmotionLabels

\* C9: add_memory appends exactly one record at the end, holding the given
\* content verbatim, the given type and the given four attributes, and
\* returns its id; every earlier memory keeps its position and every field,
\* and the collection never shrinks or reorders.
C9_AddMemoryAppends ==
    [][ /\ Len(memories') >= Len(memories)
        /\ SubSeq(memories', 1, Len(memories)) = memories
        /\ add_call'.seq # add_call.seq =>
              /\ Len(memories') = Len(memories) + 1
              /\ LET added == memories'[Len(memories')]
                 IN  /\ added["content"] = add_call'.content
                     /\ added["type"] = add_call'.memory_type
                     /\ added["musical_attributes"] =
                            [ pitch |-> add_call'.pitch,
                              dissonance |-> add_call'.dissonance,
                              tempo |-> add_call'.tempo,
                              emotion |-> add_call'.emotion ]
                     /\ added["id"] = add_call'.ret
        /\ add_call'.seq = add_call.seq => memories' = memories ]_vars

\* a second insertion, of a content with upper-case letters
C9_Witness ==
    /\ Len(memories) >= 2
    /\ add_call.seq = Len(memories)
    /\ add_call.content = <<"H","a","p","p","y"," ","B","U","T"," ","s","a","d">>
    /\ memories[Len(memories)]["content"] = <<"H","a","p","p","y"," ","B","U","T"," ","s","a","d">>
    /\ memories[Len(memories)]["id"] = add_call.ret

\* C10: get_all_memories is a read-only view: nothing a caller does with the
\* returned sequence (appending, removing, changing an element's attributes)
\* changes the store's collection or any stored memory's attributes.
C10_ReadOnlyView == [][CallerChange => memories' = memories]_vars

\* a step in which connect_memories ran
connect_step == graph_op'.op = "connect_memories" /\ graph_op'.seq # graph_op.seq

connect_failed_cleanly ==
    /\ graph_op'.ret = <<>>
    /\ connections' = connections
    /\ memories' = memories

C13_PairwiseSymmetricBounded ==
    pair_eval.a # 0 =>
        /\ pair_eval.score = pairwise_score(memories[pair_eval.b], memories[pair_eval.a])
        /\ pair_eval.score \in 0..100

\* two texts of different lengths sharing a token were scored, above zero
C13_Witness ==
    /\ pair_eval.a # 0
    /\ pair_eval.a # pair_eval.b
    /\ pair_eval.score > 0
    /\ Len(split(memories[pair_eval.a].content)) < Len(split(memories[pair_eval.b].content))
    /\ to_set(split(memory_text(memories[pair_eval.a])))
           \cap to_set(split(memory_text(memories[pair_eval.b]))) # {}

pair_ids(triple) == {triple[1]["id"], triple[2]["id"]}

\* C14: top_dissonant_pairs(memories, limit) returns at most limit triples
\* (A, B, score), highest score first, each unordered pair of distinct
\* memories at most once, only pairs whose pairwise score exceeds the minimum
\* significance threshold, each with score = pairwise_score(A, B); no pair
\* left out has a higher score than a pair included.
C14_TopDissonantPairs ==
    graph_op.op = "find_most_dissonant_pairs" =>
        /\ Len(pairs) <= graph_op.limit
        /\ \A k \in 1..(Len(pairs) - 1) : pairs[k][3] >= pairs[k + 1][3]
        /\ \A k \in 1..Len(pairs) :
              /\ \E i, j \in 1..Len(memories) :
                    i # j /\ pairs[k][1] = memories[i] /\ pairs[k][2] = memories[j]
              /\ pairs[k][3] > MinDissonance
              /\ pairs[k][3] = pairwise_score(pairs[k][1], pairs[k][2])
              /\ \A l \in 1..Len(pairs) : l # k => pair_ids(pairs[l]) # pair_ids(pairs[k])
        /\ \A i, j \in 1..Len(memories) :
              (i # j /\ \A k \in 1..Len(pairs) :
                            pair_ids(pairs[k]) # {memories[i]["id"], memories[j]["id"]})
              => \A k \in 1..Len(pairs) :
                     pairwise_score(memories[i], memories[j]) <= pairs[k][3]

\* three pairs were significant and the two highest, of different scores,
\* were returned
C14_Witness ==
    /\ graph_op.op = "find_most_dissonant_pairs"
    /\ graph_op.limit = 2
    /\ Len(pairs) = 2
    /\ pairs[1][3] > pairs[2][3]
    /\ Cardinality(significant_pairs(memories)) = 3

\* C12: in every reachable state of a store, every connection has a source
\* and a target that are ids of memories of that store, source # target, and
\* a strength within [0.1, 1.0]; for connections made from the manual form
\* and from an auto-discovered dissonant pair, whose strength is the pair's
\* dissonance score.
C12_ConnectionsWellFormed ==
    /\ \A k \in 1..Len(connections) :
          /\ \E i \in 1..Len(memories) : memories[i]["id"] = connections[k].source
          /\ \E i \in 1..Len(memories) : memories[i]["id"] = connections[k].target
          /\ connections[k].source # connections[k].target
          /\ connections[k].strength >= 10
          /\ connections[k].strength <= 100
    /\ (graph_op.op = "connect_memories" /\ graph_op.raised = "none"
            /\ connections[Len(connections)].type = "contradicts")
       => \E k \in 1..Len(pairs) :
              /\ connections[Len(connections)].source = pairs[k][1]["id"]
              /\ connections[Len(connections)].target = pairs[k][2]["id"]
              /\ connections[Len(connections)].strength = pairs[k][3]
              /\ pairs[k][3] = pairwise_score(pairs[k][1], pairs[k][2])

\* one connection from the form and one from a discovered pair
C12_Witness ==
    /\ Len(connections) = 2
    /\ connections[1].type = "related"
    /\ connections[2].type = "contradicts"
    /\ connections[2].strength < 100

refresh_step ==
    graph_op'.op = "update_tempo_scores" /\ graph_op'.seq # graph_op.seq

\* C15: refresh_tempo is idempotent on a stable collection: a second
\* refresh_tempo right after the first, with no insertion in between, leaves
\* every memory with the attributes the first run gave it.
C15_RefreshIdempotent ==
    [][(refresh_step /\ graph_op'.streak > 1) => memories' = memories]_vars

\* a second refresh in a row, after the first changed the stored attributes
C15_Witness ==
    /\ graph_op.op = "update_tempo_scores"
    /\ graph_op.streak = 2
    /\ \E i \in 1..Len(memories) :
          memories[i].musical_attributes #
              score_memory_scorer(memories[i].content, memories[i].type,
                                  list_arg(SubSeq(memories, 1, i - 1)))

\* C16: refresh_tempo sets the attributes of the memory at each position i
\* to score(content_i, type_i, the memories at the positions before i), in
\* collection order, and changes nothing else: ids, contents, types,
\* created_at, order and the connection set stay as they are.
C16_RefreshRescoresAgainstPrefix ==
    [][refresh_step =>
         /\ Len(memories') = Len(memories)
         /\ \A i \in 1..Len(memories) :
               memories'[i] =
                   [memories[i] EXCEPT !.musical_attributes =
                        score_with(graph_op'.scorer, memories[i].content,
                                   memories[i].type,
                                   list_arg(SubSeq(memories, 1, i - 1)))]
         /\ connections' = connections]_vars

\* a refresh of two memories with a connection changed the second one's
\* dissonance, which its predecessor raises
C16_Witness ==
    /\ graph_op.op = "update_tempo_scores"
    /\ graph_op.scorer = "loopchamber_app"
    /\ Len(memories) = 2
    /\ Len(connections) = 1
    /\ memories[2].musical_attributes.dissonance = 35

\* C17: score_memory has no side effects: after a call, the history
\* sequence passed in, every memory record in it, and the scorer's lexicons
\* and contradiction-signal list are unchanged.
C17_ScoreHasNoSideEffects ==
    [][(ScoreApp \/ ScoreScorer) =>
          /\ call'.existing = call.existing
          /\ scorer_tables' = scorer_tables
          /\ scorer_tables'.emotional_lexicons = emotional_lexicons
          /\ scorer_tables'.contradiction_signals = contradiction_signals]_vars

\* a call with a history of more than five entries, one of them compared
C17_Witness ==
    /\ scored_by = "loopchamber_app"
    /\ ~call.existing.is_none
    /\ Len(call.existing.list) > 5
    /\ scores.dissonance > 15

\* the type factor of the pitch, by the lower-cased type name, in hundredths
pitch_type_factor(name) ==
    CASE name = <<"i","n","s","i","g","h","t">> -> 80
      [] name = <<"q","u","e","s","t","i","o","n">> -> 70
      [] name = <<"o","b","s","e","r","v","a","t","i","o","n">> -> 60
      [] name = <<"e","v","e","n","t">> -> 50
      [] name = <<"r","e","f","l","e","c","t","i","o","n">> -> 70
      [] OTHER -> 50

\* C18: pitch = 0.4 * clamp(word_count / 100, 0.1, 1.0) + 0.6 * type_factor,
\* rounded to two decimals, with word_count the number of whitespace-separated
\* tokens and type_factor insight 0.8, question 0.7, observation 0.6, event
\* 0.5, reflection 0.7 and 0.5 for any other type; history plays no part.
\* (The type is recognised whatever its letter case, as claim C25 says.)
C18_PitchFormula ==
    scored_by # "none" =>
        LET word_count == analysis(lower(call.content)).word_count
            clamped == IF word_count < 10 THEN 10
                       ELSE IF word_count > 100 THEN 100 ELSE word_count
            thousandths == 4 * clamped + 6 * pitch_type_factor(lower(call.type))
        IN  /\ thousandths % 10 # 5
            /\ scores.pitch = (thousandths + 5) \div 10

\* 57 words scored as "Question" against a history: 0.4 * 0.57 + 0.6 * 0.7
C18_Witness ==
    /\ scored_by # "none"
    /\ call.content = txt_mid
    /\ call.type = <<"Q","u","e","s","t","i","o","n">>
    /\ ~call.existing.is_none
    /\ Len(call.existing.list) > 0
    /\ scores.pitch = 65

\* the last five entries of the history that share a token with the text
sharing_entries(text, history) ==
    LET first == IF Len(history) > 5 THEN Len(history) - 4 ELSE 1
    IN  { k \in first..Len(history) :
            /\ "content" \in DOMAIN history[k]
            /\ analysis(text).words \cap analysis(lower(history[k].content)).words # {} }

\* C19: whenever a history is supplied, dissonance = clamp(min(0.8, 0.15 *
\* number of contradiction signals found in the text) + 0.2 * (number of the
\* last five history entries sharing a whitespace-split lower-cased token
\* with the text, counted only if the text holds a signal), 0.1, 0.9).
C19_DissonanceFormula ==
    (scored_by # "none" /\ ~call.existing.is_none) =>
        LET text == lower(call.content)
            signals == analysis(text).signals
            signal_score == IF 15 * signals > 80 THEN 80 ELSE 15 * signals
            bonus == IF signals > 0
                     THEN 20 * Cardinality(sharing_entries(text, call.existing.list))
                     ELSE 0
            sum == signal_score + bonus
        IN  scores.dissonance = IF sum < 10 THEN 10 ELSE IF sum > 90 THEN 90 ELSE sum

\* C20: score_memory depends on the history only through its five most
\* recent entries: the result for a history equals the result for its last
\* five entries alone (the whole history when it is shorter), so older
\* entries never influence any attribute.
C20_OnlyLastFive ==
    (scored_by # "none" /\ ~call.existing.is_none) =>
        LET history == call.existing.list
            recent == SubSeq(history, IF Len(history) > 5 THEN Len(history) - 4 ELSE 1,
                             Len(history))
        IN  scores = IF scored_by = "loopchamber_app"
                     THEN score_memory_app(call.content, call.type, list_arg(recent))
                     ELSE score_memory_scorer(call.content, call.type, list_arg(recent))

\* six entries: the oldest shares words with the text, the last five have no
\* content, and the dissonance is that of the one signal alone
C20_Witness ==
    /\ scored_by = "loopchamber_app"
    /\ call.content = txt_scenario
    /\ ~call.existing.is_none
    /\ Len(call.existing.list) = 6
    /\ call.existing.list[1] = hist_memory
    /\ \A k \in 2..6 : call.existing.list[k] = hist_lab_record
    /\ scores.dissonance = 15

(***************************************************************************)
(* Claims C21..C28: the scoring formulas, the two scorers side by side and *)
(* the presentation helpers.                                               *)
(***************************************************************************)
\* the tempo table of the claim, in hundredths
tempo_type_factor_of(name) ==
    CASE name = <<"i","n","s","i","g","h","t">> -> 70
      [] name = <<"q","u","e","s","t","i","o","n">> -> 80
      [] name = <<"o","b","s","e","r","v","a","t","i","o","n">> -> 50
      [] name = <<"e","v","e","n","t">> -> 40
      [] name = <<"r","e","f","l","e","c","t","i","o","n">> -> 60
      [] OTHER -> 50

\* the lexicon words of the given categories found in the text
matches_in(categories, text) ==
    LET counts == analysis(text).emotion_counts
        RECURSIVE sum(_)
        sum(cs) == IF cs = {} THEN 0
                   ELSE LET c == CHOOSE x \in cs : TRUE IN counts[c] + sum(cs \ {c})
    IN  sum(categories)

\* the tempo of the last call is the weighted sum, rounded to two decimals,
\* of the question factor, the type factor and, in the three-factor class,
\* the emotion factor over the given categories; weights in tenths
tempo_is_weighted_sum(categories) ==
    LET text == lower(call.content)
        capped(x) == IF x > 80 THEN 80 ELSE x
        question_factor == capped(20 * str_count(call.content, "?"))
        emotion_factor == capped(5 * matches_in(categories, text))
        type_factor == tempo_type_factor_of(lower(call.type))
        weights == IF scored_by = "loopchamber_app"
                   THEN [question |-> 3, emotion |-> 3, type |-> 4]
                   ELSE [question |-> 4, emotion |-> 0, type |-> 6]
        thousandths == weights.question * question_factor
                       + weights.emotion * emotion_factor
                       + weights.type * type_factor
    IN  /\ weights.question + weights.emotion + weights.type = 10
        /\ 10 * scores.tempo - thousandths \in -5..5

\* C21 as stated: tempo is a weighted sum of its included factors whose
\* weights sum to 1.0, with question_factor = min(0.8, 0.2 * number of '?'),
\* the per-type tempo table (insight 0.7, question 0.8, observation 0.5,
\* event 0.4, reflection 0.6, default 0.5) and, in the three-factor variant,
\* emotion_factor = min(0.8, 0.05 * lexicon words matched across all four
\* categories positive, negative, neutral and complex).
C21_TempoFormulaFourCategories ==
    scored_by # "none" =>
        tempo_is_weighted_sum({"positive", "negative", "neutral", "complex"})

\* C21, amended: as above, with the emotion factor of the three-factor
\* variant counting the matches of the three categories positive, negative
\* and complex; matches of neutral words do not count.
C21_TempoFormula ==
    scored_by # "none" => tempo_is_weighted_sum({"positive", "negative", "complex"})

\* "i think i am happy" as an insight in the three-factor class: one positive
\* and one neutral word, tempo 0.3 * 0 + 0.3 * 0.05 + 0.4 * 0.7
C21_Witness ==
    /\ scored_by = "loopchamber_app"
    /\ call.content = txt_think_happy
    /\ call.type = <<"i","n","s","i","g","h","t">>
    /\ analysis(lower(call.content)).emotion_counts["neutral"] = 1
    /\ scores.tempo = 29

\* the phrase occurs in the text as a contiguous run of characters
occurs_in(phrase, text) ==
    \E i \in 1..(Len(text) - Len(phrase) + 1) :
        SubSeq(text, i, i + Len(phrase) - 1) = phrase

\* for each lower-cased text of the model, the number of signal phrases and,
\* per category, of lexicon words that occur in it as substrings
Occurring ==
    { << t, [ signals |-> Cardinality({k \in 1..Len(contradiction_signals) :
                                          occurs_in(contradiction_signals[k], t)}),
              words   |-> [c \in Categories |->
                              Cardinality({k \in 1..Len(lexicon(c)) :
                                              occurs_in(lexicon(c)[k], t)})] ] >>
      : t \in KnownTexts }

occurring(text) == (CHOOSE p \in Occurring : p[1] = text)[2]

\* the first category, in the lexicons' order, holding the highest positive
\* count; neutral when every count is zero
leading_category(counts) ==
    LET order == <<"positive", "negative", "neutral", "complex">>
        top == CHOOSE n \in {counts[c] : c \in Categories} :
                   \A c \in Categories : counts[c] <= n
    IN  IF top = 0 THEN "neutral"
        ELSE order[CHOOSE k \in 1..4 : counts[order[k]] = top
                                        /\ \A j \in 1..(k - 1) : counts[order[j]] < top]

\* C22: lexicon and contradiction-signal matching is pure substring
\* containment on the lower-cased text: a phrase is counted if and only if it
\* occurs as a substring, also when it occurs only inside a longer word.  The
\* counts show in the results: the dissonance of a call without history is
\* 0.15 per signal phrase occurring in the text (clamped), memory_scorer.py
\* labels the text with the leading category of the occurring lexicon words,
\* and loopchamber_app.py's tempo holds 0.3 * min(0.8, 0.05 * occurring
\* positive, negative and complex words).
C22_SubstringMatching ==
    scored_by # "none" =>
        LET found == occurring(lower(call.content))
            signal_score == IF 15 * found.signals > 80 THEN 80 ELSE 15 * found.signals
            charged == found.words["positive"] + found.words["negative"]
                       + found.words["complex"]
            emotion_factor == IF 5 * charged > 80 THEN 80 ELSE 5 * charged
            question_factor == IF analysis(lower(call.content)).questions >= 4 THEN 80
                               ELSE 20 * analysis(lower(call.content)).questions
        IN  /\ (scored_by = "memory_scorer" \/ ~truthy(call.existing)) =>
                   scores.dissonance = IF signal_score < 10 THEN 10 ELSE signal_score
            /\ scored_by = "memory_scorer" =>
                   scores.emotion = leading_category(found.words)
            /\ scored_by = "loopchamber_app" =>
                   10 * scores.tempo
                     - (3 * question_factor + 3 * emotion_factor
                        + 4 * tempo_type_factor_of(lower(call.type))) \in -5..5

\* "the butter glove": "but" occurs only inside "butter" and "love" only
\* inside "glove"; they are counted all the same
C22_Witness ==
    /\ scored_by = "memory_scorer"
    /\ call.content = txt_butter_glove
    /\ <<"b","u","t">> \notin to_set(split(lower(call.content)))
    /\ <<"l","o","v","e">> \notin to_set(split(lower(call.content)))
    /\ scores.dissonance = 15
    /\ scores.emotion = "positive"

\* C23: if the lower-cased text contains no contradiction signal,
\* score_memory returns dissonance exactly 0.1 for every history, however
\* many history entries share words with the text; if it contains at least
\* one signal, dissonance is at least 0.15.
C23_DissonanceNeedsSignal ==
    scored_by # "none" =>
        IF occurring(lower(call.content)).signals = 0
        THEN scores.dissonance = 10
        ELSE scores.dissonance >= 15

\* "i think i am happy" holds no signal and shares "i" and "happy" with each
\* of five history entries: dissonance stays 0.1
C23_Witness ==
    /\ scored_by = "loopchamber_app"
    /\ call.content = txt_think_happy
    /\ ~call.existing.is_none
    /\ Len(call.existing.list) = 5
    /\ \A k \in 1..5 :
          /\ call.existing.list[k] = hist_memory
          /\ <<"h","a","p","p","y">> \in to_set(split(lower(call.content)))
                            \cap to_set(split(lower(call.existing.list[k].content)))
    /\ scores.dissonance = 10

\* C24: the two scorer implementations (memory_scorer.py and
\* loopchamber_app.py) agree on pitch for every content, type and history,
\* and agree on dissonance for every content and type when the history is
\* empty or absent.  first_scores holds what each class returned for the call.
C24_ScorersAgree ==
    (calls_made.app > 0 /\ calls_made.scorer > 0) =>
        /\ first_scores.app.pitch = first_scores.scorer.pitch
        /\ (call.existing.is_none \/ call.existing.list = <<>>) =>
               first_scores.app.dissonance = first_scores.scorer.dissonance

\* both classes scored the scenario text without a history: the same pitch
\* and the dissonance of its one signal, while the tempo differs
C24_Witness ==
    /\ calls_made.app > 0
    /\ calls_made.scorer > 0
    /\ call.content = txt_scenario
    /\ call.type = <<"i","n","s","i","g","h","t">>
    /\ call.existing.is_none
    /\ first_scores.app.pitch = 52
    /\ first_scores.scorer.pitch = 52
    /\ first_scores.app.dissonance = 15
    /\ first_scores.scorer.dissonance = 15
    /\ first_scores.app.tempo # first_scores.scorer.tempo

(***************************************************************************)
(* Calls of score_memory on arguments that differ in letter case only.     *)
(* The caller rewrites the content, the type or the history contents with  *)
(* str.upper() or str.lower() between calls; the first dict each class     *)
(* returned is kept for comparison.                                        *)
(***************************************************************************)
\* str.upper()
upper(s) ==
    [i \in 1..Len(s) |->
        IF \E u \in DOMAIN UpperToLower : UpperToLower[u] = s[i]
        THEN CHOOSE u \in DOMAIN UpperToLower : UpperToLower[u] = s[i]
        ELSE s[i]]

Recasings == {"upper", "lower"}

recased(how, s) == IF how = "upper" THEN upper(s) ELSE lower(s)

\* the history with the content of every entry that has one recased
recased_history(how, existing_memories) ==
    [existing_memories EXCEPT !.list =
        [k \in 1..Len(@) |->
            IF "content" \in DOMAIN @[k]
            THEN [@[k] EXCEPT !.content = recased(how, @)]
            ELSE @[k]]]

CaseCalls ==
    [ content : {txt_scenario, txt_happy, txt_know, txt_butter_glove},
      type : {<<"i","n","s","i","g","h","t">>, <<"Q","u","e","s","t","i","o","n">>, <<"d","r","e","a","m">>},
      existing : {none_arg, list_arg(<<>>), list_arg(<<hist_memory>>),
                  list_arg(<<hist_lab_record, hist_memory>>)} ]

CaseScoreApp ==
    /\ scores' = score_memory_app(call.content, call.type, call.existing)
    /\ scored_by' = "loopchamber_app"
    /\ calls_made' = [calls_made EXCEPT !.app = 1]
    /\ first_scores' = IF calls_made.app = 0
                       THEN [first_scores EXCEPT !.app = scores']
                       ELSE first_scores
    /\ UNCHANGED << call, scorer_attrs, session_state, memories, now, add_call,
                    view_held, lab_memories, memory_file, graph_vars, scorer_tables >>

CaseScoreScorer ==
    /\ scores' = score_memory_scorer(call.content, call.type, call.existing)
    /\ scored_by' = "memory_scorer"
    /\ calls_made' = [calls_made EXCEPT !.scorer = 1]
    /\ first_scores' = IF calls_made.scorer = 0
                       THEN [first_scores EXCEPT !.scorer = scores']
                       ELSE first_scores
    /\ UNCHANGED << call, scorer_attrs, session_state, memories, now, add_call,
                    view_held, lab_memories, memory_file, graph_vars, scorer_tables >>

\* the caller changes the letter case of the next call's content
RecaseContent ==
    /\ \E how \in Recasings : call' = [call EXCEPT !.content = recased(how, @)]
    /\ scored_by' = "none"
    /\ UNCHANGED << scores, first_scores, calls_made, scorer_attrs, session_state,
                    memories, now, add_call, view_held, lab_memories, memory_file,
                    graph_vars, scorer_tables >>

\* ... of its type string
RecaseType ==
    /\ \E how \in Recasings : call' = [call EXCEPT !.type = recased(how, @)]
    /\ scored_by' = "none"
    /\ UNCHANGED << scores, first_scores, calls_made, scorer_attrs, session_state,
                    memories, now, add_call, view_held, lab_memories, memory_file,
                    graph_vars, scorer_tables >>

\* ... of the contents of its history entries
RecaseHistory ==
    /\ ~call.existing.is_none
    /\ \E how \in Recasings : call' = [call EXCEPT !.existing = recased_history(how, @)]
    /\ scored_by' = "none"
    /\ UNCHANGED << scores, first_scores, calls_made, scorer_attrs, session_state,
                    memories, now, add_call, view_held, lab_memories, memory_file,
                    graph_vars, scorer_tables >>

InitCase == call \in CaseCalls /\ ScorerInit /\ StoreInit /\ LabInit /\ GraphInit

NextCase ==
    \/ CaseScoreApp
    \/ CaseScoreScorer
    \/ RecaseContent
    \/ RecaseType
    \/ RecaseHistory

SpecCase == InitCase /\ [][NextCase]_vars

AppAddMemory == scored_by # "memory_scorer" /\ SubmitMemoryForm

\* memory_store.py: the new-memory form
StoreAddNewMemory == scored_by # "loopchamber_app" /\ SubmitNewMemoryForm

\* update_tempo_scores(the application's scorer)
RefreshSameScorer == RefreshTempo /\ graph_op'.scorer = scored_by

NextInsert == AppAddMemory \/ StoreAddNewMemory \/ RefreshSameScorer

SpecInsert == Init /\ [][NextInsert]_vars

\* the step inserted a memory through a helper
insert_step == add_call'.seq = add_call.seq + 1

\* the step was a refresh
refresh_pass ==
    graph_op'.op = "update_tempo_scores" /\ graph_op'.seq = graph_op.seq + 1

\* the attributes of the k-th memory of the list are what the class scores
\* for its content and type against the memories before it
scored_against_prefix(list, k, class) ==
    list[k].musical_attributes =
        IF class = "loopchamber_app"
        THEN score_memory_app(list[k].content, list[k].type,
                              list_arg(SubSeq(list, 1, k - 1)))
        ELSE score_memory_scorer(list[k].content, list[k].type,
                                 list_arg(SubSeq(list, 1, k - 1)))

\* C26: for every memory inserted through the score-then-insert helper, with
\* calls run one at a time, the attributes stored with the memory equal
\* score_memory(content, type, the memories stored before it), so the memory
\* being inserted is never part of its own history and a later refresh that
\* re-scores each memory against its prefix leaves these attributes
\* unchanged.
C26_InsertedScoredAgainstPrefix ==
    [][ /\ insert_step =>
              /\ Len(memories') = Len(memories) + 1
              /\ SubSeq(memories', 1, Len(memories)) = memories
              /\ call'.existing.list = memories
              /\ memories'[Len(memories')].content = call'.content
              /\ memories'[Len(memories')].type = call'.type
              /\ scored_against_prefix(memories', Len(memories'), scored_by')
        /\ refresh_pass => memories' = memories
        /\ \A k \in 1..Len(memories') :
              scored_against_prefix(memories', k, scored_by') ]_vars

\* loopchamber_app.py: the second memory shares "but" with the first and was
\* stored with dissonance 0.15 + 0.2; a refresh has run and left it so
C26_Witness ==
    /\ scored_by = "loopchamber_app"
    /\ graph_op.op = "update_tempo_scores"
    /\ Len(memories) = 2
    /\ memories[1].content = txt_scenario
    /\ memories[2].content # txt_scenario
    /\ memories[1].musical_attributes.dissonance = 15
    /\ memories[2].musical_attributes.dissonance = 35

(***************************************************************************)
(* The presentation helpers of memory_store.py called by the forms and by  *)
(* a caller that passes None, unknown ids or out-of-range strengths.       *)
(***************************************************************************)
\* add_new_memory(content, memory_type) called directly
CallAddNewMemory ==
    \E content \in FormContents \cup {none_value},
       memory_type \in NewMemoryTypes \cup {none_value}, suffix \in Suffixes :
        /\ Len(memories) < MaxGraphMemories
        /\ graph_op.seq = 0
        /\ add_new_memory(session_state, content, memory_type, suffix)
        /\ UNCHANGED << first_scores, calls_made, scorer_attrs, now, view_held,
                        lab_memories, memory_file, connections, pairs, pair_eval,
                        pair_weights, scorer_tables >>

NextHelpers ==
    \/ SubmitNewMemoryForm
    \/ CallAddNewMemory
    \/ SubmitConnectForm
    \/ CallConnectMemories

SpecHelpers == Init /\ [][NextHelpers]_vars

\* the step ran the helper named `op`
helper_step(op) ==
    /\ graph_op'.op = op
    /\ << graph_op', session_state', memories', connections' >>
         # << graph_op, session_state, memories, connections >>

\* the helper returned None with the error message set, the success message
\* not set and the store as it was
helper_failed(message) ==
    /\ graph_op'.ret = <<>>
    /\ session_state'.error_message = message
    /\ session_state'.success_message \in {session_state.success_message, "None"}
    /\ memories' = memories
    /\ connections' = connections

\* C27: the presentation helpers add_new_memory and connect_memories never
\* let an exception escape: when scoring, insertion or connection creation
\* raises, the helper returns None, sets error_message, does not set
\* success_message, and leaves the store's memories and connections
\* unchanged; when it succeeds it returns the new id and the store has grown
\* by exactly one entry.
C27_HelpersCatchExceptions ==
    [][ /\ helper_step("add_new_memory") =>
              IF graph_op'.raised # "none"
              THEN helper_failed("Error adding memory")
              ELSE /\ Len(memories') = Len(memories) + 1
                   /\ SubSeq(memories', 1, Len(memories)) = memories
                   /\ graph_op'.ret = memories'[Len(memories')]["id"]
                   /\ connections' = connections
                   /\ session_state'.success_message = "Memory added successfully!"
        /\ helper_step("connect_memories") =>
              IF graph_op'.raised # "none"
              THEN helper_failed("Error connecting memories")
              ELSE /\ Len(connections') = Len(connections) + 1
                   /\ SubSeq(connections', 1, Len(connections)) = connections
                   /\ graph_op'.ret = connections'[Len(connections')]["id"]
                   /\ memories' = memories
                   /\ session_state'.success_message = "Memories connected successfully!"
      ]_vars

\* add_new_memory(None, "insight") after one memory was stored: scoring
\* raised, the helper returned None and the store still holds the one memory
C27_Witness ==
    /\ graph_op.op = "add_new_memory"
    /\ graph_op.raised = "AttributeError"
    /\ graph_op.ret = <<>>
    /\ session_state.error_message = "Error adding memory"
    /\ Len(memories) = 1
    /\ connections = <<>>

\* connect_memories with an unknown id: creation raised and was caught
C27_WitnessConnect ==
    /\ graph_op.op = "connect_memories"
    /\ graph_op.raised = "ReferenceError"
    /\ graph_op.ret = <<>>
    /\ session_state.error_message = "Error connecting memories"
    /\ session_state.success_message # "Memories connected successfully!"
    /\ Len(memories) = 2
    /\ connections = <<>>

(***************************************************************************)
(* Calls of score_memory on a content the caller lengthens between calls:  *)
(* a signal phrase that already occurs in it is put before it once more,   *)
(* or a question mark is put after it.                                     *)
(***************************************************************************)
GrowCalls ==
    [ content : GrowBases, type : {<<"i","n","s","i","g","h","t">>, <<"d","r","e","a","m">>},
      existing : {none_arg, list_arg(<<hist_memory>>)} ]

\* the signal phrases that occur in the content
signals_in(content) ==
    {contradiction_signals[k] : k \in {j \in 1..Len(contradiction_signals) :
                                          str_in(contradiction_signals[j], lower(content))}}

\* how many copies of phrase-and-blank the content starts with
RECURSIVE leading_copies(_, _)
leading_copies(content, phrase) ==
    LET n == Len(phrase) + 1
    IN  IF Len(content) >= n /\ SubSeq(content, 1, n) = phrase \o <<" ">>
        THEN 1 + leading_copies(SubSeq(content, n + 1, Len(content)), phrase)
        ELSE 0

\* the caller repeats a signal phrase of the content
RepeatSignal ==
    /\ \E signal \in signals_in(call.content) :
          /\ leading_copies(call.content, signal) < MaxRepeats
          /\ call' = [call EXCEPT !.content = signal \o <<" ">> \o @]
    /\ scored_by' = "none"
    /\ UNCHANGED << scores, first_scores, calls_made, scorer_attrs, session_state,
                    memories, now, add_call, view_held, lab_memories, memory_file,
                    graph_vars, scorer_tables >>

\* the caller adds a question mark
AppendQuestion ==
    /\ str_count(call.content, "?") < MaxQuestions
    /\ call' = [call EXCEPT !.content = @ \o <<"?">>]
    /\ scored_by' = "none"
    /\ UNCHANGED << scores, first_scores, calls_made, scorer_attrs, session_state,
                    memories, now, add_call, view_held, lab_memories, memory_file,
                    graph_vars, scorer_tables >>

InitGrow == call \in GrowCalls /\ ScorerInit /\ StoreInit /\ LabInit /\ GraphInit

NextGrow == ScoreApp \/ ScoreScorer \/ RepeatSignal \/ AppendQuestion

SpecGrow == InitGrow /\ [][NextGrow]_vars

\* the content without the copies of "but" put before it
RECURSIVE unrepeated(_)
unrepeated(content) ==
    IF Len(content) >= 4 /\ SubSeq(content, 1, 4) = <<"b","u","t"," ">>
       /\ occurs_in(<<"b","u","t">>, lower(SubSeq(content, 5, Len(content))))
    THEN unrepeated(SubSeq(content, 5, Len(content)))
    ELSE content

\* the content without the question marks put after it
RECURSIVE unquestioned(_)
unquestioned(content) ==
    IF Len(content) > 0 /\ content[Len(content)] = "?"
    THEN unquestioned(SubSeq(content, 1, Len(content) - 1))
    ELSE content

\* what the class of the last call returns for another content
scores_for(content) ==
    IF scored_by = "loopchamber_app"
    THEN score_memory_app(content, call.type, call.existing)
    ELSE score_memory_scorer(content, call.type, call.existing)

\* every question mark added to a content without one raises the question
\* factor by 0.2 up to 0.8, reached with four: the returned tempo, a rounded
\* weighted sum, is that of the content without them plus the factor's weight
\* (0.4 in memory_scorer.py, 0.3 in loopchamber_app.py) times the factor
question_factor_steps ==
    LET marks == str_count(call.content, "?")
        factor == IF marks >= 4 THEN 80 ELSE 20 * marks
        before == scores_for(unquestioned(call.content)).tempo
    IN  str_count(unquestioned(call.content), "?") = 0 =>
            IF scored_by = "memory_scorer"
            THEN 10 * (scores.tempo - before) = 4 * factor
            ELSE 10 * (scores.tempo - before) - 3 * factor \in -10..10

\* C28 as stated: the contradiction signal score counts distinct signal
\* phrases present, not occurrences: repeating a signal phrase that already
\* occurs in the text does not change dissonance, whereas every additional
\* '?' character raises the question factor by 0.2 until it saturates at 0.8
\* (four question marks).
C28_RepeatsKeepDissonance ==
    scored_by # "none" =>
        /\ scores.dissonance = scores_for(unrepeated(call.content)).dissonance
        /\ question_factor_steps

\* C28, amended: repeating a signal phrase that already occurs in the text
\* does not change the contradiction signal score, and does not change
\* dissonance when the history is empty or absent (in memory_scorer.py:
\* always) or the phrase already was one of the text's whitespace-separated
\* words; the question factor as stated.
C28_RepeatsKeepSignalScore ==
    scored_by # "none" =>
        /\ ( \/ scored_by = "memory_scorer"
             \/ ~truthy(call.existing)
             \/ <<"b","u","t">> \in to_set(split(lower(unrepeated(call.content)))) ) =>
               scores.dissonance = scores_for(unrepeated(call.content)).dissonance
        /\ question_factor_steps

\* "but but I love this but I also feel anxious?????" against a history: the
\* signal counts once (0.15 + 0.2 for the history entry) and the fifth
\* question mark adds nothing to the four
C28_Witness ==
    /\ scored_by = "loopchamber_app"
    /\ call.content = grown(txt_scenario, 2, 5)
    /\ truthy(call.existing)
    /\ scores.dissonance = 35
    /\ scores.tempo = scores_for(grown(txt_scenario, 2, 4)).tempo
    /\ scores.tempo > scores_for(grown(txt_scenario, 2, 3)).tempo

====
